---- MODULE Spec2Model ----
(***************************************************************************)
(* A model of the Vercel AI Gateway plugin: the configuration resolver     *)
(* (config.ts), the gateway client cache (gateway.ts) and the model        *)
(* handlers (handlers/*.ts).                                               *)
(*                                                                         *)
(* JavaScript values are modelled as follows.  `undefined` is the string   *)
(* Undefined, which is no value any setting takes.  A nullable reference   *)
(* is a sequence of length at most one: None is null, Some(x) the          *)
(* reference to x.  An object with identity (a client handle) carries the  *)
(* number of its construction as its id.                                   *)
(***************************************************************************)
EXTENDS Integers, Sequences, FiniteSets, TLC

VARIABLES
    \* gateway.ts, module state
    gatewayInstance,    \* the cached client handle, or None
    currentConfig,      \* the configuration the cached handle was built for, or None
    constructed,        \* number of createOpenAICompatible calls so far
    lastCall,           \* observation of the last gateway call: what it saw and returned
    \* config.ts, one parseConfig call
    env,                \* the raw settings handed to parseConfig
    parsed,             \* NotCalled, or the outcome of parseConfig(env)
    \* concurrent handler invocations (handlers/*.ts over gateway.ts)
    calls,              \* per invocation: its handler's configuration, position and model
    \* handlers/text-generation.ts, one invocation and the consumer of its result
    text,               \* the invocation: parameters, position, requests issued, result
    stream,             \* the streaming result: upstream, generator, callback, consumer
    \* handlers/text-embedding.ts, invocations of either implementation
    embedding,          \* the calls made so far, each with its outcome
    \* handlers/tokenizer.ts, module state and the callers of the two handlers
    tokenizer,          \* the tokenizer cache, token sequences held, round trips done
    \* index.ts, plugin initialisation and the host's use of what it registered
    plugin,             \* settings, parsed configuration, handler table, registerModel calls
    \* handlers/object-generation.ts, one invocation
    object,             \* the invocation: parameters, generateObject request, result
    \* handlers/image-generation.ts and handlers/fal.ts, one invocation
    image,              \* the invocation: parameters, upstream request and response, result
    \* handlers/text-to-speech.ts and handlers/transcription.ts, one invocation
    audio,              \* the invocation: parameter, fetches made and their responses, outcome
    \* handlers/image-description.ts, one invocation
    vision,             \* the invocation: the response text and the result parsed from it
    \* handlers/fal-models.ts, one fetchAllFalModels call
    models              \* the call: pages fetched, cursors sent, items gathered, outcome

vars == <<gatewayInstance, currentConfig, constructed, lastCall, env, parsed,
          calls, text, stream, embedding, tokenizer, plugin, object, image,
          audio, vision, models>>

gatewayVars == <<gatewayInstance, currentConfig, constructed, lastCall>>
configVars == <<env, parsed>>
\* the state of the handlers that use neither the gateway client nor the settings
restVars == <<audio, vision, models>>
localVars == <<tokenizer, plugin, object, image, restVars>>

None == <<>>
Some(x) == <<x>>
Undefined == "<undefined>"

(***************************************************************************)
(* Bounds of the model.                                                    *)
(***************************************************************************)
MaxHandles == 3         \* client handles constructed in one behaviour
NumCalls == 2           \* handler invocations that may be in flight together
MaxFragments == 3       \* fragments the upstream model streams in one answer
MaxEmbeddingCalls == 2  \* invocations of the embedding handlers in one behaviour
MaxTokenizerCalls == 4  \* invocations of the tokenizer handlers in one behaviour
MaxSchemaDepth == 2     \* nesting depth of the JSON schemas handed to the object handler
MaxImages == 2          \* images in one response of an image provider
MaxResponseLen == 4     \* pieces in one response text of the vision model
MaxMaxPages == 3        \* largest maxPages fetchAllFalModels is called with

(***************************************************************************)
(* config.ts: aiGatewayConfigSchema and parseConfig.                       *)
(***************************************************************************)
DefaultBaseUrl == "https://ai-gateway.vercel.sh/v1"
DefaultTextSmallModel == "anthropic/claude-haiku-4.5"
DefaultTextLargeModel == "anthropic/claude-opus-4.5"
DefaultEmbeddingModel == "openai/text-embedding-3-large"
DefaultImageModel == "bfl/flux-2-pro"
DefaultVisionModel == "xai/grok-2-vision"
DefaultTranscriptionModel == "openai/whisper-1"
DefaultTtsModel == "openai/tts-1-hd"
DefaultTtsVoice == "alloy"
TtsVoices == {"alloy", "echo", "fable", "onyx", "nova", "shimmer"}

\* The strings of the model that z.string().url() accepts.
WellFormedUrls == {DefaultBaseUrl, "https://proxy.example/v1"}
MalformedUrls == {"", "not a url"}

ConfigFields ==
    {"AI_GATEWAY_API_KEY", "AI_GATEWAY_BASE_URL", "AI_GATEWAY_TEXT_SMALL_MODEL",
     "AI_GATEWAY_TEXT_LARGE_MODEL", "AI_GATEWAY_EMBEDDING_MODEL",
     "AI_GATEWAY_IMAGE_MODEL", "AI_GATEWAY_VISION_MODEL",
     "AI_GATEWAY_TRANSCRIPTION_MODEL", "AI_GATEWAY_TTS_MODEL", "AI_GATEWAY_TTS_VOICE"}

\* z.string().min(1, ...): the value is present and has at least one character.
\* (NonEmptyStringPresentOnly is z.string() without .min(1).)
NonEmptyStringPresentOnly(v) == v # Undefined
NonEmptyString(v) == v # Undefined /\ Len(v) >= 1

\* z.string().url().default(d): an absent value takes the default and is not validated.
UrlOk(v) == v = Undefined \/ v \in WellFormedUrls

\* z.enum([...]).default(d)
VoiceOk(v) == v = Undefined \/ v \in TtsVoices

\* .default(d): only an absent value is replaced; an empty string is kept.
\* (WithDefaultAlways is a schema that ignores the setting.)
WithDefaultAlways(v, d) == d
WithDefault(v, d) == IF v = Undefined THEN d ELSE v

\* The issues z.object(...).parse collects, by field.
SchemaIssues(input) ==
    {f \in {"AI_GATEWAY_API_KEY"} : ~NonEmptyString(input.AI_GATEWAY_API_KEY)}
    \cup {f \in {"AI_GATEWAY_BASE_URL"} : ~UrlOk(input.AI_GATEWAY_BASE_URL)}
    \cup {f \in {"AI_GATEWAY_TTS_VOICE"} : ~VoiceOk(input.AI_GATEWAY_TTS_VOICE)}

SchemaOutput(input) ==
    [AI_GATEWAY_API_KEY |-> input.AI_GATEWAY_API_KEY,
     AI_GATEWAY_BASE_URL |-> WithDefault(input.AI_GATEWAY_BASE_URL, DefaultBaseUrl),
     AI_GATEWAY_TEXT_SMALL_MODEL |->
        WithDefault(input.AI_GATEWAY_TEXT_SMALL_MODEL, DefaultTextSmallModel),
     AI_GATEWAY_TEXT_LARGE_MODEL |->
        WithDefault(input.AI_GATEWAY_TEXT_LARGE_MODEL, DefaultTextLargeModel),
     AI_GATEWAY_EMBEDDING_MODEL |->
        WithDefault(input.AI_GATEWAY_EMBEDDING_MODEL, DefaultEmbeddingModel),
     AI_GATEWAY_IMAGE_MODEL |-> WithDefault(input.AI_GATEWAY_IMAGE_MODEL, DefaultImageModel),
     AI_GATEWAY_VISION_MODEL |->
        WithDefault(input.AI_GATEWAY_VISION_MODEL, DefaultVisionModel),
     AI_GATEWAY_TRANSCRIPTION_MODEL |->
        WithDefault(input.AI_GATEWAY_TRANSCRIPTION_MODEL, DefaultTranscriptionModel),
     AI_GATEWAY_TTS_MODEL |-> WithDefault(input.AI_GATEWAY_TTS_MODEL, DefaultTtsModel),
     AI_GATEWAY_TTS_VOICE |-> WithDefault(input.AI_GATEWAY_TTS_VOICE, DefaultTtsVoice)]

\* aiGatewayConfigSchema.parse(input): the validated configuration, or a thrown ZodError.
aiGatewayConfigSchema(input) ==
    IF SchemaIssues(input) = {}
    THEN [threw |-> FALSE, value |-> Some(SchemaOutput(input)), issues |-> {}]
    ELSE [threw |-> TRUE, value |-> None, issues |-> SchemaIssues(input)]

\* parseConfig(env): reads the ten settings of env and parses them.
parseConfig(e) ==
    aiGatewayConfigSchema(
        [AI_GATEWAY_API_KEY |-> e.AI_GATEWAY_API_KEY,
         AI_GATEWAY_BASE_URL |-> e.AI_GATEWAY_BASE_URL,
         AI_GATEWAY_TEXT_SMALL_MODEL |-> e.AI_GATEWAY_TEXT_SMALL_MODEL,
         AI_GATEWAY_TEXT_LARGE_MODEL |-> e.AI_GATEWAY_TEXT_LARGE_MODEL,
         AI_GATEWAY_EMBEDDING_MODEL |-> e.AI_GATEWAY_EMBEDDING_MODEL,
         AI_GATEWAY_IMAGE_MODEL |-> e.AI_GATEWAY_IMAGE_MODEL,
         AI_GATEWAY_VISION_MODEL |-> e.AI_GATEWAY_VISION_MODEL,
         AI_GATEWAY_TRANSCRIPTION_MODEL |-> e.AI_GATEWAY_TRANSCRIPTION_MODEL,
         AI_GATEWAY_TTS_MODEL |-> e.AI_GATEWAY_TTS_MODEL,
         AI_GATEWAY_TTS_VOICE |-> e.AI_GATEWAY_TTS_VOICE])

\* The raw settings the model draws from: every field absent, valid or invalid.
ApiKeyInputs == {Undefined, "", "key-A", "key-B"}
BaseUrlInputs == {Undefined} \cup WellFormedUrls \cup MalformedUrls
ModelInputs == {Undefined, "", "acme/custom-model"}
OtherModelInputs == {Undefined, "acme/custom-model"}
VoiceInputs == {Undefined, "nova", "robot"}

EnvInputs ==
    [AI_GATEWAY_API_KEY : ApiKeyInputs,
     AI_GATEWAY_BASE_URL : BaseUrlInputs,
     AI_GATEWAY_TEXT_SMALL_MODEL : ModelInputs,
     AI_GATEWAY_TEXT_LARGE_MODEL : ModelInputs,
     AI_GATEWAY_EMBEDDING_MODEL : OtherModelInputs,
     AI_GATEWAY_IMAGE_MODEL : OtherModelInputs,
     AI_GATEWAY_VISION_MODEL : OtherModelInputs,
     AI_GATEWAY_TRANSCRIPTION_MODEL : OtherModelInputs,
     AI_GATEWAY_TTS_MODEL : OtherModelInputs,
     AI_GATEWAY_TTS_VOICE : VoiceInputs]

\* An env with only the given settings present.
EnvOf(key, url, small) ==
    [f \in ConfigFields |->
        CASE f = "AI_GATEWAY_API_KEY" -> key
          [] f = "AI_GATEWAY_BASE_URL" -> url
          [] f = "AI_GATEWAY_TEXT_SMALL_MODEL" -> small
          [] OTHER -> Undefined]

NotCalled == [threw |-> FALSE, value |-> None, issues |-> {}]

(***************************************************************************)
(* gateway.ts: the client cache.                                           *)
(***************************************************************************)
\* The validated configurations the handlers are created with: parseConfig's
\* outputs, two of which may agree on (API key, base URL) and differ elsewhere.
GatewayConfigs ==
    {parseConfig(EnvOf(k, u, s)).value[1] :
        k \in {"key-A", "key-B"},
        u \in {Undefined, "https://proxy.example/v1"},
        s \in {Undefined, "acme/custom-model"}}

\* createOpenAICompatible({name, baseURL, headers}): a new provider object; id is
\* its identity, the number of its construction.
createOpenAICompatible(settings, id) ==
    [id |-> id, name |-> settings.name, baseURL |-> settings.baseURL,
     headers |-> settings.headers]

\* gateway.languageModel(modelId) / gateway.textEmbeddingModel(modelId): a model
\* bound to the provider object it was derived from.
languageModel(gateway, modelId) ==
    [kind |-> "languageModel", modelId |-> modelId, provider |-> gateway]
textEmbeddingModel(gateway, modelId) ==
    [kind |-> "textEmbeddingModel", modelId |-> modelId, provider |-> gateway]

\* The condition of createGatewayClient's early return.  (CacheHitKeyOnly is the
\* condition without its comparison of the base URLs.)
CacheHitKeyOnly(instance, current, config) ==
    /\ instance # None
    /\ current # None
    /\ current[1].AI_GATEWAY_API_KEY = config.AI_GATEWAY_API_KEY
CacheHit(instance, current, config) ==
    /\ instance # None
    /\ current # None
    /\ current[1].AI_GATEWAY_API_KEY = config.AI_GATEWAY_API_KEY
    /\ current[1].AI_GATEWAY_BASE_URL = config.AI_GATEWAY_BASE_URL

\* The module state of gateway.ts as one value.
Cache ==
    [instance |-> gatewayInstance, config |-> currentConfig, constructed |-> constructed]

\* createGatewayClient(config) on the module state `cache`: the state it leaves and
\* the handle it returns.
createGatewayClient(cache, config) ==
    IF CacheHit(cache.instance, cache.config, config)
    THEN [instance |-> cache.instance, config |-> cache.config,
          constructed |-> cache.constructed, ret |-> cache.instance[1]]
    ELSE LET fresh ==
                createOpenAICompatible(
                    [name |-> "vercel-ai-gateway",
                     baseURL |-> config.AI_GATEWAY_BASE_URL,
                     headers |->
                        [Authorization |-> "Bearer " \o config.AI_GATEWAY_API_KEY]],
                    cache.constructed + 1)
         IN [instance |-> Some(fresh), config |-> Some(config),
             constructed |-> cache.constructed + 1, ret |-> fresh]

\* getLanguageModel(config, modelId) and getEmbeddingModel(config, modelId).
getLanguageModel(cache, config, modelId) ==
    LET r == createGatewayClient(cache, config)
    IN [instance |-> r.instance, config |-> r.config, constructed |-> r.constructed,
        ret |-> languageModel(r.ret, modelId)]
getEmbeddingModel(cache, config, modelId) ==
    LET r == createGatewayClient(cache, config)
    IN [instance |-> r.instance, config |-> r.config, constructed |-> r.constructed,
        ret |-> textEmbeddingModel(r.ret, modelId)]

\* clearGatewayCache(): the module state it leaves.  (clearGatewayCacheKeepsInstance
\* is a clear without `gatewayInstance = null`.)
clearGatewayCacheKeepsInstance == [instance |-> gatewayInstance, config |-> None]
clearGatewayCache == [instance |-> None, config |-> None]

\* The cache after a call left it as `r`.
SetCache(r) ==
    /\ gatewayInstance' = r.instance
    /\ currentConfig' = r.config
    /\ constructed' = r.constructed

\* What the call after this one is told about this one.
AfterClear == lastCall.op = "clearGatewayCache"
Cleared == IF AfterClear THEN lastCall.pre.instance ELSE None

NoCall ==
    [op |-> "none", config |-> None, handle |-> None, model |-> None,
     pre |-> [instance |-> None, config |-> None, constructed |-> 0],
     afterClear |-> FALSE, cleared |-> None]

\* A direct call of createGatewayClient(config).
CallCreateGatewayClient(config) ==
    LET r == createGatewayClient(Cache, config)
    IN /\ r.constructed <= MaxHandles
       /\ SetCache(r)
       /\ lastCall' = [op |-> "createGatewayClient", config |-> Some(config),
                       handle |-> Some(r.ret), model |-> None, pre |-> Cache,
                       afterClear |-> AfterClear, cleared |-> Cleared]

\* A direct call of getLanguageModel(config, modelId).
CallGetLanguageModel(config, modelId) ==
    LET r == getLanguageModel(Cache, config, modelId)
    IN /\ r.constructed <= MaxHandles
       /\ SetCache(r)
       /\ lastCall' = [op |-> "getLanguageModel", config |-> Some(config),
                       handle |-> Some(r.ret.provider), model |-> Some(r.ret),
                       pre |-> Cache, afterClear |-> AfterClear, cleared |-> Cleared]

\* A direct call of getEmbeddingModel(config, modelId).
CallGetEmbeddingModel(config, modelId) ==
    LET r == getEmbeddingModel(Cache, config, modelId)
    IN /\ r.constructed <= MaxHandles
       /\ SetCache(r)
       /\ lastCall' = [op |-> "getEmbeddingModel", config |-> Some(config),
                       handle |-> Some(r.ret.provider), model |-> Some(r.ret),
                       pre |-> Cache, afterClear |-> AfterClear, cleared |-> Cleared]

\* A call of clearGatewayCache().
CallClearGatewayCache ==
    /\ gatewayInstance' = clearGatewayCache.instance
    /\ currentConfig' = clearGatewayCache.config
    /\ constructed' = constructed
    /\ lastCall' = [op |-> "clearGatewayCache", config |-> None, handle |-> None,
                    model |-> None, pre |-> Cache, afterClear |-> AfterClear,
                    cleared |-> Cleared]

GatewayInit ==
    /\ gatewayInstance = None
    /\ currentConfig = None
    /\ constructed = 0
    /\ lastCall = NoCall

(***************************************************************************)
(* Handler invocations in flight together.  A handler closes over the      *)
(* configuration it was created with; an invocation runs synchronously up  *)
(* to its first await (the upstream request) and resumes when the response *)
(* arrives, so the steps of different invocations interleave at the awaits *)
(* only.                                                                   *)
(***************************************************************************)
\* The configurations handlers are created with: a first one, one that differs from
\* it in the API key and one that differs from it in the base URL.
CallConfigs ==
    {parseConfig(EnvOf(s[1], s[2], Undefined)).value[1] :
        s \in {<<"key-A", Undefined>>, <<"key-B", Undefined>>,
               <<"key-A", "https://proxy.example/v1">>}}
HandlerKinds == {"text", "embedding"}

CallIds == 1..NumCalls

\* createTextHandler: the invocation up to `await streamText/generateText`: it
\* looks the model up and issues the request with it.
TextHandlerStart(p) ==
    LET h == calls[p].handler
    IN /\ h.kind = "text"
       /\ calls[p].pc \in {"idle", "done"}
       /\ CallGetLanguageModel(h.config, h.config.AI_GATEWAY_TEXT_SMALL_MODEL)
       /\ calls' = [calls EXCEPT ![p].pc = "awaiting", ![p].model = lastCall'.model]

\* createTextEmbeddingHandler, for a text that is not blank: the invocation up to
\* `await embed`.
EmbeddingHandlerStart(p) ==
    LET h == calls[p].handler
    IN /\ h.kind = "embedding"
       /\ calls[p].pc \in {"idle", "done"}
       /\ CallGetEmbeddingModel(h.config, h.config.AI_GATEWAY_EMBEDDING_MODEL)
       /\ calls' = [calls EXCEPT ![p].pc = "awaiting", ![p].model = lastCall'.model]

\* The upstream response arrives and the invocation returns.
HandlerResume(p) ==
    /\ calls[p].pc = "awaiting"
    /\ calls' = [calls EXCEPT ![p].pc = "done"]
    /\ UNCHANGED gatewayVars

IdleCalls == <<>>

(***************************************************************************)
(* handlers/text-generation.ts: createTextHandler, one invocation, and the *)
(* consumer of the streaming result it returns.                            *)
(***************************************************************************)
\* The parameters that decide the mode: the stream flag (true, false or unset) and
\* whether a chunk callback is supplied.
StreamFlags == {"true", "false", Undefined}
TextParams == [stream : StreamFlags, onStreamChunk : BOOLEAN]

\* What the upstream model produces: the fragments of a streamed answer, and the
\* text of a blocking one.
Fragments == {"Hel", "lo"}
BlockingTexts == {"", "Hello"}

RECURSIVE Concat(_)
Concat(fragments) ==
    IF fragments = <<>> THEN "" ELSE Head(fragments) \o Concat(Tail(fragments))

\* const shouldStream = stream === true || (stream !== false && onStreamChunk)
\* (shouldStreamIgnoresFalse is the decision without `stream !== false`.)
shouldStreamIgnoresFalse(params) ==
    params.stream = "true" \/ params.onStreamChunk
shouldStream(params) ==
    params.stream = "true" \/ (params.stream # "false" /\ params.onStreamChunk)

\* The invocation up to its first await: it looks the model up, decides the mode
\* and issues the streaming or the blocking request.
TextHandlerCall(params) ==
    /\ text.pc = "idle"
    /\ CallGetLanguageModel(text.handler.config, text.handler.modelId)
    /\ text' = [text EXCEPT
                    !.params = Some(params),
                    !.model = lastCall'.model,
                    !.requests = Append(@, IF shouldStream(params)
                                           THEN "streamText" ELSE "generateText"),
                    !.pc = IF shouldStream(params)
                           THEN "awaitStreamText" ELSE "awaitGenerateText"]
    /\ UNCHANGED stream

\* The stream before its consumer has pulled anything.
NewStream ==
    [gen |-> "notStarted", upstream |-> <<>>, chunk |-> None, invoked |-> <<>>,
     delivered |-> <<>>, yielded |-> <<>>, consumer |-> "idle", failedAt |-> 0,
     error |-> None, fullText |-> None, pulledAfterClose |-> FALSE]

\* streamText has returned: the handler returns the TextStreamResult, whose
\* textStream is the wrapping generator when a callback was supplied and
\* result.textStream otherwise.
StreamTextReturns ==
    /\ text.pc = "awaitStreamText"
    /\ text' = [text EXCEPT
                    !.pc = "returned",
                    !.result = Some([type |-> "TextStreamResult",
                                     textStream |-> IF text.params[1].onStreamChunk
                                                    THEN "textStreamWithCallback"
                                                    ELSE "result.textStream",
                                     value |-> ""])]
    /\ stream' = NewStream
    /\ UNCHANGED gatewayVars

\* generateText has resolved: the handler returns result.text.
GenerateTextReturns(completed) ==
    /\ text.pc = "awaitGenerateText"
    /\ text' = [text EXCEPT
                    !.pc = "returned",
                    !.result = Some([type |-> "string", textStream |-> "none",
                                     value |-> completed])]
    /\ UNCHANGED <<stream, gatewayVars>>

Streaming == text.pc = "returned" /\ text.result[1].type = "TextStreamResult"
WithCallback == Streaming /\ text.result[1].textStream = "textStreamWithCallback"

\* textStreamWithCallback, `for await (const chunk of result.textStream)` has a
\* chunk: `await callback(chunk)` invokes the callback and suspends on it.
\* (OnChunkYieldsFirst is a loop body that yields the chunk before that.)
OnChunkYieldsFirst(s, chunk) ==
    [s EXCEPT !.gen = "inCallback", !.chunk = Some(chunk),
              !.yielded = Append(@, chunk),
              !.invoked = Append(@, chunk), !.consumer = "waiting"]
OnChunk(s, chunk) ==
    [s EXCEPT !.gen = "inCallback", !.chunk = Some(chunk),
              !.invoked = Append(@, chunk), !.consumer = "waiting"]

\* The awaited callback has completed: `yield chunk` hands the chunk to the consumer.
\* (OnCallbackResolvedNoYield is a loop body without the yield.)
OnCallbackResolvedNoYield(s) ==
    [s EXCEPT !.gen = "atYield", !.chunk = None,
              !.delivered = Append(@, s.chunk[1]), !.consumer = "idle"]
OnCallbackResolved(s) ==
    [s EXCEPT !.gen = "atYield", !.chunk = None,
              !.delivered = Append(@, s.chunk[1]),
              !.yielded = Append(@, s.chunk[1]), !.consumer = "idle"]

\* The awaited callback has failed: the generator throws, which ends it and rejects
\* the consumer's pending next().  (OnCallbackRejectedSwallowed is a loop body that
\* catches the failure and goes on to the yield.)
OnCallbackRejectedSwallowed(s) ==
    [s EXCEPT !.gen = "atYield", !.chunk = None, !.failedAt = Len(s.invoked),
              !.yielded = Append(@, s.chunk[1]), !.consumer = "idle"]
OnCallbackRejected(s) ==
    [s EXCEPT !.gen = "closed", !.chunk = None, !.failedAt = Len(s.invoked),
              !.error = Some("callback failure"), !.consumer = "failed"]

\* result.textStream is exhausted: the sequence ends, and result.text (the deferred
\* full text, passed through unchanged) resolves to everything the model streamed.
OnEnd(s) ==
    [s EXCEPT !.gen = "closed", !.consumer = "complete",
              !.fullText = Some(Concat(s.upstream))]

\* The consumer pulls the next fragment and the upstream model delivers one.
ConsumerNextChunk(chunk) ==
    /\ Streaming
    /\ stream.consumer = "idle"
    /\ stream.gen \in {"notStarted", "atYield"}
    /\ Len(stream.upstream) < MaxFragments
    /\ LET s == [stream EXCEPT !.upstream = Append(@, chunk)]
       IN stream' = IF WithCallback
                    THEN OnChunk(s, chunk)
                    ELSE [s EXCEPT !.gen = "atYield", !.yielded = Append(@, chunk)]
    /\ UNCHANGED <<text, gatewayVars>>

\* The consumer pulls the next fragment and the upstream model has finished.
ConsumerNextEnd ==
    /\ Streaming
    /\ stream.consumer = "idle"
    /\ stream.gen \in {"notStarted", "atYield"}
    /\ stream' = OnEnd(stream)
    /\ UNCHANGED <<text, gatewayVars>>

\* The callback the generator awaits completes.
CallbackResolves ==
    /\ Streaming
    /\ stream.gen = "inCallback"
    /\ stream' = OnCallbackResolved(stream)
    /\ UNCHANGED <<text, gatewayVars>>

\* The callback the generator awaits throws or rejects.
CallbackFails ==
    /\ Streaming
    /\ stream.gen = "inCallback"
    /\ stream' = OnCallbackRejected(stream)
    /\ UNCHANGED <<text, gatewayVars>>

\* The consumer pulls again from a sequence that has ended or failed: a finished
\* generator answers done and runs nothing.
ConsumerNextAfterClose ==
    /\ Streaming
    /\ stream.gen = "closed"
    /\ ~stream.pulledAfterClose
    /\ stream' = [stream EXCEPT !.pulledAfterClose = TRUE]
    /\ UNCHANGED <<text, gatewayVars>>

(***************************************************************************)
(* handlers/text-embedding.ts: createTextEmbeddingHandler.  The repository *)
(* holds two implementations of it, which differ in what they do with a    *)
(* blank text.  A text is a sequence of characters.                        *)
(***************************************************************************)
ZeroVectorLength == 3072

WhiteSpace == {" ", "\t", "\n"}

RECURSIVE TrimStart(_)
TrimStart(chars) ==
    IF chars # <<>> /\ Head(chars) \in WhiteSpace THEN TrimStart(Tail(chars)) ELSE chars
RECURSIVE TrimEnd(_)
TrimEnd(chars) ==
    IF chars # <<>> /\ chars[Len(chars)] \in WhiteSpace
    THEN TrimEnd(SubSeq(chars, 1, Len(chars) - 1))
    ELSE chars
\* String.prototype.trim
Trim(chars) == TrimEnd(TrimStart(chars))

\* The parameter shapes the handler is called with: null, undefined, a bare string,
\* and a record whose text field is a string or is missing.
EmbeddingTexts ==
    {<<>>, <<" ">>, <<" ", "\t", "\n">>, <<"h", "i">>, <<" ", "h", "i", " ">>}
EmbeddingParams ==
    {[type |-> t, text |-> None] : t \in {"null", "undefined", "object"}}
    \cup {[type |-> t, text |-> Some(x)] : t \in {"string", "object"}, x \in EmbeddingTexts}

\* What `embed` resolves to: the upstream model's vector.
UpstreamEmbeddings ==
    {[length |-> n, elements |-> "upstream"] : n \in {1536, ZeroVectorLength}}

\* new Array(3072).fill(0)
ZeroVector == [length |-> ZeroVectorLength, elements |-> "0"]

Threw(message) == [kind |-> "threw", message |-> message, value |-> None]
Returned(value) == [kind |-> "returned", message |-> "", value |-> Some(value)]
AwaitEmbed(chars) == [kind |-> "await embed", message |-> "", value |-> Some(chars)]

\* `!text || text.trim().length === 0`, text being undefined (None) or a string.
BlankText(t) == t = None \/ Len(t[1]) = 0 \/ Len(Trim(t[1])) = 0

\* The implementation index.ts exports, up to `await embed`: a blank text gets the
\* zero vector.
createTextEmbeddingHandler(params) ==
    IF params.type \in {"null", "undefined"}
    THEN Threw("Text is required for embedding")
    ELSE IF BlankText(params.text)
         THEN Returned(ZeroVector)
         ELSE AwaitEmbed(params.text[1])

\* The other implementation, up to `await embed`: a blank text is an error.
createTextEmbeddingHandlerThrowing(params) ==
    IF params.type \in {"null", "undefined"}
    THEN Threw("Text is required for embedding")
    ELSE IF BlankText(params.text)
         THEN Threw("Text cannot be empty for embedding")
         ELSE AwaitEmbed(params.text[1])

EmbeddingImplementations == {"zero vector", "throwing"}
EmbeddingPrefix(impl, params) ==
    IF impl = "zero vector"
    THEN createTextEmbeddingHandler(params)
    ELSE createTextEmbeddingHandlerThrowing(params)

\* An invocation of a handler of either implementation, up to its return or to
\* `await embed`, before which it looks the embedding model up.
EmbeddingHandlerCall(impl, params) ==
    LET sync == EmbeddingPrefix(impl, params)
        config == embedding.config
    IN /\ embedding.pending = None
       /\ Len(embedding.log) < MaxEmbeddingCalls
       /\ IF sync.kind = "await embed"
          THEN /\ CallGetEmbeddingModel(config, config.AI_GATEWAY_EMBEDDING_MODEL)
               /\ embedding' =
                     [embedding EXCEPT
                         !.pending = Some([impl |-> impl, params |-> params,
                                           value |-> sync.value[1],
                                           model |-> lastCall'.model[1]])]
          ELSE /\ embedding' =
                     [embedding EXCEPT
                         !.log = Append(@, [impl |-> impl, params |-> params,
                                            outcome |-> sync])]
               /\ UNCHANGED gatewayVars

\* `embed` resolves and the handler returns result.embedding.
EmbedResolves(vector) ==
    /\ embedding.pending # None
    /\ embedding' =
          [embedding EXCEPT
              !.pending = None,
              !.log = Append(@, [impl |-> embedding.pending[1].impl,
                                 params |-> embedding.pending[1].params,
                                 outcome |-> Returned(vector)])]
    /\ UNCHANGED gatewayVars

(***************************************************************************)
(* handlers/tokenizer.ts: the tokenizer cache and the TEXT_TOKENIZER_ENCODE *)
(* and TEXT_TOKENIZER_DECODE handlers.  A Tiktoken instance is modelled by *)
(* the name of its encoding, a text by a sequence of characters.           *)
(***************************************************************************)
\* The model names encodingForModel knows, with their encodings; it throws on
\* any other name.
ModelToEncoding ==
    [m \in {"gpt-4", "gpt-4o", "gpt2"} |->
        CASE m = "gpt-4" -> "cl100k_base"
          [] m = "gpt-4o" -> "o200k_base"
          [] m = "gpt2" -> "gpt2"]
encodingForModel(modelType) ==
    IF modelType \in DOMAIN ModelToEncoding
    THEN [threw |-> FALSE, encoding |-> ModelToEncoding[modelType]]
    ELSE [threw |-> TRUE, encoding |-> ""]
getEncoding(name) == name

\* The modelType values the handlers are called with: names encodingForModel
\* knows, and names it does not know.
ModelTypes == DOMAIN ModelToEncoding \cup {"TEXT_LARGE", "cl100k_base"}

\* The vocabulary of an encoding, cut down to the alphabet of the model: every
\* encoding has the single characters, and each has a merged pair of its own.
SpecialToken == "<|endoftext|>"
Vocabulary(encoding) ==
    {[piece |-> <<"a">>, token |-> 64], [piece |-> <<"b">>, token |-> 65]}
    \cup (CASE encoding = "cl100k_base" -> {[piece |-> <<"a", "b">>, token |-> 370]}
            [] encoding = "o200k_base" -> {[piece |-> <<"b", "a">>, token |-> 3205]}
            [] encoding = "gpt2" -> {[piece |-> <<"a", "a">>, token |-> 7252]})
TokenOf(encoding, piece) ==
    (CHOOSE v \in Vocabulary(encoding) : v.piece = piece).token
HasPiece(encoding, piece) == \E v \in Vocabulary(encoding) : v.piece = piece
HasToken(encoding, token) == \E v \in Vocabulary(encoding) : v.token = token
PieceOf(encoding, token) ==
    (CHOOSE v \in Vocabulary(encoding) : v.token = token).piece

\* Tiktoken.encode's split of a text without special tokens into tokens: the
\* longest piece of the vocabulary first.
RECURSIVE EncodeChars(_, _)
EncodeChars(encoding, chars) ==
    IF chars = <<>> THEN <<>>
    ELSE IF Len(chars) >= 2 /\ HasPiece(encoding, SubSeq(chars, 1, 2))
         THEN <<TokenOf(encoding, SubSeq(chars, 1, 2))>>
              \o EncodeChars(encoding, SubSeq(chars, 3, Len(chars)))
         ELSE <<TokenOf(encoding, <<Head(chars)>>)>>
              \o EncodeChars(encoding, Tail(chars))
\* tokenizer.encode(prompt): a text holding a special token is refused.
encode(encoding, chars) ==
    IF \E i \in 1..Len(chars) : chars[i] = SpecialToken
    THEN Threw("The text contains a special token that is not allowed")
    ELSE Returned(EncodeChars(encoding, chars))

RECURSIVE DecodeTokens(_, _)
DecodeTokens(encoding, tokens) ==
    IF tokens = <<>> THEN <<>>
    ELSE PieceOf(encoding, Head(tokens)) \o DecodeTokens(encoding, Tail(tokens))
\* tokenizer.decode(tokens): the pieces of the tokens joined; a token the
\* encoding does not have has no piece.
decode(encoding, tokens) ==
    IF \E i \in 1..Len(tokens) : ~HasToken(encoding, tokens[i])
    THEN Threw("unknown token")
    ELSE Returned(DecodeTokens(encoding, tokens))

\* Map.prototype.set
MapSet(map, key, value) ==
    [k \in DOMAIN map \cup {key} |-> IF k = key THEN value ELSE map[k]]

\* new Tiktoken(...): the object encodingForModel and getEncoding return; `id`
\* tells one object from another of the same encoding.
Tiktoken(encoding, id) == [encoding |-> encoding, id |-> id]

\* The module state getTokenizer works on: the Map `tokenizers` and the number
\* of Tiktoken objects made so far.
TokenizerCache(map, created) == [tokenizers |-> map, created |-> created]

\* A variant of getTokenizer whose fallback takes a tokenizer the cache already
\* holds, whatever its encoding, before it makes the cl100k_base one.
getTokenizerAnyCached(cache, modelType) ==
    LET map == cache.tokenizers
        made == Tiktoken("cl100k_base", cache.created + 1)
    IN IF modelType \in DOMAIN map
       THEN [tokenizers |-> map, created |-> cache.created, ret |-> map[modelType]]
       ELSE IF ~encodingForModel(modelType).threw
            THEN [tokenizers |-> MapSet(map, modelType,
                                        Tiktoken(encodingForModel(modelType).encoding,
                                                 cache.created + 1)),
                  created |-> cache.created + 1,
                  ret |-> Tiktoken(encodingForModel(modelType).encoding,
                                   cache.created + 1)]
            ELSE IF DOMAIN map \ {"cl100k_base"} # {}
                 THEN [tokenizers |-> map, created |-> cache.created,
                       ret |-> map[CHOOSE k \in DOMAIN map \ {"cl100k_base"} : TRUE]]
                 ELSE [tokenizers |-> MapSet(map, "cl100k_base", made),
                       created |-> cache.created + 1,
                       ret |-> made]

\* A variant of getTokenizer whose fallback makes a cl100k_base tokenizer on
\* every call, replacing the one the cache holds.
getTokenizerFreshFallback(cache, modelType) ==
    LET map == cache.tokenizers
        made(encoding) == Tiktoken(encoding, cache.created + 1)
    IN IF modelType \notin DOMAIN map \/ encodingForModel(modelType).threw
       THEN LET e == encodingForModel(modelType)
                key == IF e.threw THEN "cl100k_base" ELSE modelType
                t == made(IF e.threw THEN getEncoding("cl100k_base") ELSE e.encoding)
            IN [tokenizers |-> MapSet(map, key, t),
                created |-> cache.created + 1,
                ret |-> t]
       ELSE [tokenizers |-> map, created |-> cache.created, ret |-> map[modelType]]

\* getTokenizer(modelType) on the module state `cache`: the state it leaves and
\* the tokenizer it returns.
getTokenizer(cache, modelType) ==
    LET map == cache.tokenizers
    IN IF modelType \notin DOMAIN map
       THEN LET e == encodingForModel(modelType)
            IN IF ~e.threw
               THEN LET set == MapSet(map, modelType,
                                      Tiktoken(e.encoding, cache.created + 1))
                    IN [tokenizers |-> set, created |-> cache.created + 1,
                        ret |-> set[modelType]]
               ELSE IF "cl100k_base" \notin DOMAIN map
                    THEN LET set == MapSet(map, "cl100k_base",
                                           Tiktoken(getEncoding("cl100k_base"),
                                                    cache.created + 1))
                         IN [tokenizers |-> set, created |-> cache.created + 1,
                             ret |-> set["cl100k_base"]]
                    ELSE [tokenizers |-> map, created |-> cache.created,
                          ret |-> map["cl100k_base"]]
       ELSE [tokenizers |-> map, created |-> cache.created, ret |-> map[modelType]]

\* The handler createTokenizerEncodeHandler returns, on the module state `cache`.
createTokenizerEncodeHandler(cache, params) ==
    LET t == getTokenizer(cache, params.modelType)
    IN [tokenizers |-> t.tokenizers, created |-> t.created, tokenizer |-> t.ret,
        outcome |-> encode(t.ret.encoding, params.prompt)]
\* The handler createTokenizerDecodeHandler returns, on the module state `cache`.
createTokenizerDecodeHandler(cache, params) ==
    LET t == getTokenizer(cache, params.modelType)
    IN [tokenizers |-> t.tokenizers, created |-> t.created, tokenizer |-> t.ret,
        outcome |-> decode(t.ret.encoding, params.tokens)]

\* The prompts the encode handler is called with.
Prompts ==
    {<<>>, <<"a">>, <<"a", "b">>, <<"b", "a">>, <<"a", "a">>, <<"b", "a", "b">>,
     <<"a", SpecialToken>>}

\* What an observer of the getTokenizer calls keeps: the tokenizer each
\* modelType got at its first call, and the modelType and tokenizer of the
\* latest call.
Observed(first, modelType, ret) ==
    [first |-> IF modelType \in DOMAIN first THEN first
               ELSE MapSet(first, modelType, ret),
     last |-> Some([modelType |-> modelType, ret |-> ret])]

\* A caller encodes a prompt and keeps the tokens (nothing is kept of a refused
\* prompt).
TokenizerEncode(modelType, prompt) ==
    LET r == createTokenizerEncodeHandler(
                 TokenizerCache(tokenizer.tokenizers, tokenizer.created),
                 [modelType |-> modelType, prompt |-> prompt])
        o == Observed(tokenizer.first, modelType, r.tokenizer)
    IN /\ tokenizer.calls < MaxTokenizerCalls
       /\ tokenizer.held = None
       /\ tokenizer' =
             [tokenizer EXCEPT
                 !.tokenizers = r.tokenizers,
                 !.created = r.created,
                 !.first = o.first,
                 !.last = o.last,
                 !.calls = @ + 1,
                 !.refused = r.outcome.kind = "threw",
                 !.held = IF r.outcome.kind = "threw" THEN None
                          ELSE Some([modelType |-> modelType, prompt |-> prompt,
                                     tokens |-> r.outcome.value[1]])]

\* Another caller encodes a prompt in between; only the cache keeps a trace of it.
TokenizerEncodeOther(modelType, prompt) ==
    LET r == createTokenizerEncodeHandler(
                 TokenizerCache(tokenizer.tokenizers, tokenizer.created),
                 [modelType |-> modelType, prompt |-> prompt])
        o == Observed(tokenizer.first, modelType, r.tokenizer)
    IN /\ tokenizer.calls < MaxTokenizerCalls
       /\ tokenizer.held # None
       /\ tokenizer' = [tokenizer EXCEPT !.tokenizers = r.tokenizers,
                                         !.created = r.created,
                                         !.first = o.first,
                                         !.last = o.last,
                                         !.calls = @ + 1]

\* The tokens kept are decoded, with the modelType they were made with or with
\* another one.
TokenizerDecode(modelType) ==
    LET r == createTokenizerDecodeHandler(
                 TokenizerCache(tokenizer.tokenizers, tokenizer.created),
                 [modelType |-> modelType, tokens |-> tokenizer.held[1].tokens])
        o == Observed(tokenizer.first, modelType, r.tokenizer)
    IN /\ tokenizer.calls < MaxTokenizerCalls
       /\ tokenizer.held # None
       /\ tokenizer' =
             [tokenizer EXCEPT
                 !.tokenizers = r.tokenizers,
                 !.created = r.created,
                 !.first = o.first,
                 !.last = o.last,
                 !.calls = @ + 1,
                 !.decoded = Some([modelType |-> modelType, outcome |-> r.outcome])]

(***************************************************************************)
(* utils/error-handler.ts: AIGatewayError and wrapHandlerError.  An error  *)
(* is a record of its class name and fields; a thrown value that is no     *)
(* Error (a string) has the class name "<string>".                         *)
(***************************************************************************)
PlainError(message) ==
    [name |-> "Error", message |-> message, code |-> Undefined, cause |-> None]
ThrownString(s) ==
    [name |-> "<string>", message |-> s, code |-> Undefined, cause |-> None]
\* new AIGatewayError(message, code, undefined, cause)
AIGatewayError(message, code, cause) ==
    [name |-> "AIGatewayError", message |-> message, code |-> code, cause |-> cause]

\* wrapHandlerError(modelType, error): the error it throws.
wrapHandlerError(modelType, error) ==
    IF error.name = "AIGatewayError"
    THEN error
    ELSE AIGatewayError(modelType \o " handler failed: " \o error.message,
                        "HANDLER_ERROR",
                        IF error.name = "Error" THEN Some(error) ELSE None)

(***************************************************************************)
(* index.ts (the plugin): createModelHandlers and aiGatewayPlugin.init.    *)
(***************************************************************************)
PLUGIN_NAME == "@ghostspeak/plugin-gateway-ghost"
PRIORITY == 10

\* The booleans a configuration may hold, next to strings and Undefined.
JsTrue == "<true>"
JsFalse == "<false>"
\* ToBoolean of undefined, a string or a boolean.
Truthy(v) == v \notin {Undefined, "", JsFalse}
\* a || b
Or(a, b) == IF Truthy(a) THEN a ELSE b
\* obj.field, which is undefined when obj has no such property.
Get(obj, field) == IF field \in DOMAIN obj THEN obj[field] ELSE Undefined

FalFields == {"FAL_API_KEY", "FAL_IMAGE_MODEL", "FAL_VIDEO_MODEL", "FAL_PREFER_FOR_IMAGES"}

\* The entries of the handlers object literal, in the order it lists them,
\* without the IMAGE entry's choice: model type and the factory of its handler.
BaseHandlers ==
    << <<"TEXT_SMALL", "createTextSmallHandler">>,
       <<"TEXT_LARGE", "createTextLargeHandler">>,
       <<"TEXT_COMPLETION", "createTextCompletionHandler">>,
       <<"TEXT_REASONING_SMALL", "createTextReasoningSmallHandler">>,
       <<"TEXT_REASONING_LARGE", "createTextReasoningLargeHandler">>,
       <<"TEXT_EMBEDDING", "createTextEmbeddingHandler">>,
       <<"OBJECT_SMALL", "createObjectSmallHandler">>,
       <<"OBJECT_LARGE", "createObjectLargeHandler">>,
       <<"IMAGE", "createImageHandler">>,
       <<"IMAGE_DESCRIPTION", "createImageDescriptionHandler">>,
       <<"TRANSCRIPTION", "createTranscriptionHandler">>,
       <<"TEXT_TO_SPEECH", "createTextToSpeechHandler">>,
       <<"TEXT_TOKENIZER_ENCODE", "createTokenizerEncodeHandler">>,
       <<"TEXT_TOKENIZER_DECODE", "createTokenizerDecodeHandler">> >>

\* One entry of the table: the handler is named by the factory that made it.
Registration(modelType, factory) ==
    [modelType |-> modelType, handler |-> factory,
     provider |-> PLUGIN_NAME, priority |-> PRIORITY]

\* A variant of the IMAGE entry that asks for the credential only.
ImageFactoryKeyOnly(config) ==
    IF Truthy(Get(config, "FAL_API_KEY"))
    THEN "createFalImageHandler"
    ELSE "createImageHandler"
\* config.FAL_API_KEY && config.FAL_PREFER_FOR_IMAGES ? createFalImageHandler(config)
\*                                                   : createImageHandler(config)
ImageFactory(config) ==
    IF Truthy(Get(config, "FAL_API_KEY")) /\ Truthy(Get(config, "FAL_PREFER_FOR_IMAGES"))
    THEN "createFalImageHandler"
    ELSE "createImageHandler"

\* createModelHandlers(config): the entries of the object it returns, in
\* insertion order.
createModelHandlers(config) ==
    [i \in 1..Len(BaseHandlers) |->
        Registration(BaseHandlers[i][1],
                     IF BaseHandlers[i][1] = "IMAGE" THEN ImageFactory(config)
                     ELSE BaseHandlers[i][2])]
    \o (IF Truthy(Get(config, "FAL_API_KEY"))
        THEN <<Registration("VIDEO", "createFalVideoHandler")>>
        ELSE <<>>)

\* A variant of the registration loop that registers the first entry again at
\* the end.
RegisterAllFirstTwice(handlers) == handlers \o <<Head(handlers)>>
\* for (const [modelType, registration] of Object.entries(handlers))
\*   runtime.registerModel(...): the registerModel calls made, in order.
RegisterAll(handlers) == handlers

\* The object literal init hands to parseConfig.
InitInput(pluginConfig, processEnv) ==
    [f \in ConfigFields \cup FalFields |-> Or(pluginConfig[f], processEnv[f])]

\* The settings a plugin config or the environment holds in the model.
SettingsOf(key, falKey, prefer) ==
    [f \in ConfigFields \cup FalFields |->
        CASE f = "AI_GATEWAY_API_KEY" -> key
          [] f = "FAL_API_KEY" -> falKey
          [] f = "FAL_PREFER_FOR_IMAGES" -> prefer
          [] OTHER -> Undefined]
Settings ==
    {SettingsOf(k, f, p) : k \in {Undefined, "", "key-A", "key-B"},
                           f \in {Undefined, "fal-key", "fal-key-B"},
                           p \in {Undefined, "true", "false"}}

\* What a registered handler does when invoked, and the values it may throw.
ThrownValues ==
    {PlainError("upstream 500"), ThrownString("boom"),
     AIGatewayError("rate limit", "RATE_LIMIT", None),
     AIGatewayError("TEXT_SMALL handler failed: upstream 500", "HANDLER_ERROR",
                    Some(PlainError("upstream 500")))}

\* A variant of init that registers the table built from the raw settings
\* before it validates them.
PluginInitRegistersFirst ==
    /\ plugin.pc = "loaded"
    /\ LET input == InitInput(plugin.pluginConfig, plugin.processEnv)
           r == parseConfig(input)
       IN plugin' =
             IF r.threw
             THEN [plugin EXCEPT !.pc = "failed",
                                 !.thrown = Some(r.issues),
                                 !.handlers = createModelHandlers(input),
                                 !.registered = RegisterAll(createModelHandlers(input))]
             ELSE [plugin EXCEPT
                      !.pc = "initialized",
                      !.config = r.value,
                      !.handlers = createModelHandlers(r.value[1]),
                      !.registered = RegisterAll(createModelHandlers(r.value[1]))]

\* aiGatewayPlugin.init(pluginConfig, runtime): parse, build the table, register
\* every entry; a failure is logged and rethrown (`thrown` is what init throws).
PluginInit ==
    /\ plugin.pc = "loaded"
    /\ LET r == parseConfig(InitInput(plugin.pluginConfig, plugin.processEnv))
       IN plugin' =
             IF r.threw
             THEN [plugin EXCEPT !.pc = "failed", !.thrown = Some(r.issues)]
             ELSE [plugin EXCEPT
                      !.pc = "initialized",
                      !.config = r.value,
                      !.handlers = createModelHandlers(r.value[1]),
                      !.registered = RegisterAll(createModelHandlers(r.value[1]))]

\* The host invokes the handler registered for a model type, and the handler
\* throws: the host's caller gets what the registered function throws.
InvokeRegistered(i, thrown) ==
    /\ plugin.pc = "initialized"
    /\ plugin.invoked = None
    /\ i \in 1..Len(plugin.registered)
    /\ plugin' =
          [plugin EXCEPT
              !.invoked = Some([modelType |-> plugin.registered[i].modelType,
                                thrown |-> thrown, received |-> thrown])]

\* The configurations createModelHandlers may be handed: validated settings,
\* without or with the alternative provider's credential and preference flag.
DispatchConfigs ==
    GatewayConfigs
    \cup {[f \in DOMAIN c \cup {"FAL_API_KEY", "FAL_PREFER_FOR_IMAGES"} |->
             CASE f = "FAL_API_KEY" -> k
               [] f = "FAL_PREFER_FOR_IMAGES" -> p
               [] OTHER -> c[f]] :
          c \in GatewayConfigs, k \in {Undefined, "", "fal-key"},
          p \in {Undefined, JsFalse, JsTrue}}

\* createModelHandlers(config), called on its own.
BuildHandlers ==
    /\ plugin.pc = "configured"
    /\ plugin' = [plugin EXCEPT !.pc = "built",
                                !.handlers = createModelHandlers(plugin.config[1])]

(***************************************************************************)
(* handlers/object-generation.ts: jsonSchemaToZod and createObjectHandler. *)
(* A JSON schema is a record of its type, properties, required list and    *)
(* items, the absent ones None; a zod schema is a record of its kind and   *)
(* parts; a generated value is a record of its JavaScript type and parts.  *)
(***************************************************************************)
JsonSchema(type, properties, required, items) ==
    [type |-> type, properties |-> properties, required |-> required, items |-> items]
LeafSchemas == {JsonSchema(t, None, None, None) : t \in {"string", "integer"}}
RequiredLists == {None, Some(<<>>), Some(<<"name">>), Some(<<"name", "age">>)}

\* The schemas of nesting depth at most d over the property names name and age.
RECURSIVE SchemasOfDepth(_)
SchemasOfDepth(d) ==
    IF d = 0 THEN LeafSchemas
    ELSE LET sub == SchemasOfDepth(d - 1)
         IN sub
            \cup {JsonSchema("object", None, None, None),
                  JsonSchema("array", None, None, None)}
            \cup {JsonSchema("object",
                             Some([name |-> c, age |-> JsonSchema("integer", None, None, None)]),
                             r, None) : c \in sub, r \in RequiredLists}
            \cup {JsonSchema("array", None, None, Some(c)) : c \in sub}
Schemas == SchemasOfDepth(MaxSchemaDepth)

ZodLeaf(kind) == [kind |-> kind]
ZodOptional(inner) == [kind |-> "optional", inner |-> inner]
ZodArray(element) == [kind |-> "array", element |-> element]
ZodObject(shape) == [kind |-> "object", shape |-> shape]

\* required.includes(key)
Includes(required, key) == \E i \in 1..Len(required) : required[i] = key

\* A variant of jsonSchemaToZod that looks for the key in the property names
\* instead of the required list, so that every property is mandatory.
RECURSIVE jsonSchemaToZodAllMandatory(_)
jsonSchemaToZodAllMandatory(schema) ==
    CASE schema.type = "string" -> ZodLeaf("string")
      [] schema.type = "number" -> ZodLeaf("number")
      [] schema.type = "integer" -> ZodLeaf("int")
      [] schema.type = "boolean" -> ZodLeaf("boolean")
      [] schema.type = "null" -> ZodLeaf("null")
      [] schema.type = "array" ->
            IF schema.items # None
            THEN ZodArray(jsonSchemaToZodAllMandatory(schema.items[1]))
            ELSE ZodArray(ZodLeaf("unknown"))
      [] schema.type = "object" ->
            IF schema.properties # None
            THEN ZodObject([key \in DOMAIN schema.properties[1] |->
                              jsonSchemaToZodAllMandatory(schema.properties[1][key])])
            ELSE ZodLeaf("record")
      [] OTHER -> ZodLeaf("unknown")

\* jsonSchemaToZod(schema)
RECURSIVE jsonSchemaToZod(_)
jsonSchemaToZod(schema) ==
    CASE schema.type = "string" -> ZodLeaf("string")
      [] schema.type = "number" -> ZodLeaf("number")
      [] schema.type = "integer" -> ZodLeaf("int")
      [] schema.type = "boolean" -> ZodLeaf("boolean")
      [] schema.type = "null" -> ZodLeaf("null")
      [] schema.type = "array" ->
            IF schema.items # None
            THEN ZodArray(jsonSchemaToZod(schema.items[1]))
            ELSE ZodArray(ZodLeaf("unknown"))
      [] schema.type = "object" ->
            IF schema.properties # None
            THEN LET required == IF schema.required # None THEN schema.required[1]
                                 ELSE <<>>
                 IN ZodObject([key \in DOMAIN schema.properties[1] |->
                                 LET zodProp == jsonSchemaToZod(schema.properties[1][key])
                                 IN IF Includes(required, key) THEN zodProp
                                    ELSE ZodOptional(zodProp)])
            ELSE ZodLeaf("record")
      [] OTHER -> ZodLeaf("unknown")

\* Generated values.
JsUndefined == [t |-> "undefined"]
JsString(s) == [t |-> "string", value |-> s]
JsInt == [t |-> "int"]
JsObject(fields) == [t |-> "object", fields |-> fields]
JsArray(elems) == [t |-> "array", elems |-> elems]

\* zodSchema.safeParse(value).success, as generateObject validates what the model
\* generated before it resolves.
RECURSIVE Accepts(_, _)
Accepts(zod, value) ==
    CASE zod.kind = "string" -> value.t = "string"
      [] zod.kind = "number" -> value.t \in {"int", "float"}
      [] zod.kind = "int" -> value.t = "int"
      [] zod.kind = "boolean" -> value.t = "boolean"
      [] zod.kind = "null" -> value.t = "null"
      [] zod.kind = "unknown" -> TRUE
      [] zod.kind = "record" -> value.t = "object"
      [] zod.kind = "optional" ->
            value.t = "undefined" \/ Accepts(zod.inner, value)
      [] zod.kind = "array" ->
            /\ value.t = "array"
            /\ \A i \in 1..Len(value.elems) : Accepts(zod.element, value.elems[i])
      [] zod.kind = "object" ->
            /\ value.t = "object"
            /\ \A key \in DOMAIN zod.shape :
                  Accepts(zod.shape[key],
                          IF key \in DOMAIN value.fields THEN value.fields[key]
                          ELSE JsUndefined)

\* What the upstream model may generate.
Profile == JsObject([name |-> JsString("John"), age |-> JsInt])
GeneratedValues ==
    {Profile,
     JsObject([name |-> JsString("John")]),
     JsObject([age |-> JsInt]),
     JsObject(<<>>),
     JsObject([name |-> Profile, age |-> JsInt]),
     JsObject([name |-> JsArray(<<JsString("John")>>), age |-> JsInt]),
     JsArray(<<>>),
     JsArray(<<Profile>>),
     JsString("John")}

\* The parameters the handler is called with.
EnumValueLists == {None, Some(<<>>), Some(<<"red", "green">>)}
ObjectParams ==
    [output : {Undefined, "object", "array", "enum"},
     enumValues : EnumValueLists,
     schema : {None} \cup {Some(s) : s \in Schemas}]

\* const [first, ...rest] = enumValues; [first, ...rest]
FirstAndRest(enumValues) == IF enumValues = <<>> THEN <<Undefined>> ELSE enumValues

\* objectParams.output === 'enum' && objectParams.enumValues
EnumBranch(params) == params.output = "enum" /\ params.enumValues # None

\* The generateObject request the handler issues for its parameters.
ObjectRequest(params) ==
    LET zodSchema == IF params.schema # None THEN Some(jsonSchemaToZod(params.schema[1]))
                     ELSE None
    IN IF EnumBranch(params)
       THEN [output |-> "enum", enum |-> FirstAndRest(params.enumValues[1]),
             schema |-> None]
       ELSE IF params.output = "array"
            THEN [output |-> "array", enum |-> <<>>,
                  schema |-> IF zodSchema = None THEN Some(ZodArray(ZodLeaf("unknown")))
                             ELSE zodSchema]
            ELSE [output |-> "object", enum |-> <<>>,
                  schema |-> IF zodSchema = None THEN Some(ZodLeaf("record"))
                             ELSE zodSchema]

\* What the handler returns of result.object, by the request it issued.
ObjectResult(request, generated) ==
    CASE request.output = "enum" -> [shape |-> "value", content |-> generated]
      [] request.output = "array" -> [shape |-> "items", content |-> generated]
      [] OTHER -> [shape |-> "bare", content |-> generated]

\* The invocation up to `await generateObject`.
ObjectHandlerCall(params) ==
    /\ object.pc = "idle"
    /\ CallGetLanguageModel(object.handler.config, object.handler.modelId)
    /\ object' = [object EXCEPT !.pc = "awaitGenerateObject",
                                !.params = Some(params),
                                !.request = Some(ObjectRequest(params))]

\* What generateObject may resolve to for a request: one of the enum values, an
\* array, or a value the request's schema accepts.
Resolutions(request) ==
    CASE request.output = "enum" ->
            {JsString(request.enum[i]) : i \in 1..Len(request.enum)}
      [] request.output = "array" -> {v \in GeneratedValues : v.t = "array"}
      [] OTHER -> {v \in GeneratedValues : Accepts(request.schema[1], v)}

\* generateObject resolves and the handler returns.
GenerateObjectResolves(generated) ==
    /\ object.pc = "awaitGenerateObject"
    /\ generated \in Resolutions(object.request[1])
    /\ object' = [object EXCEPT !.pc = "returned",
                                !.result = Some(ObjectResult(object.request[1], generated))]
    /\ UNCHANGED gatewayVars

\* generateObject rejects (no value the schema accepts, or an upstream failure)
\* and the handler rejects with the same error.
GenerateObjectRejects ==
    /\ object.pc = "awaitGenerateObject"
    /\ object' = [object EXCEPT !.pc = "threw"]
    /\ UNCHANGED gatewayVars

(***************************************************************************)
(* handlers/image-generation.ts (createImageHandler) and handlers/fal.ts   *)
(* (createFalImageHandler).  A size is a sequence of characters.           *)
(***************************************************************************)
DigitChars == <<"0", "1", "2", "3", "4", "5", "6", "7", "8", "9">>
IsDigit(c) == \E d \in 1..10 : DigitChars[d] = c
DigitValue(c) == (CHOOSE d \in 1..10 : DigitChars[d] = c) - 1

\* The decimal numeral of a natural number.
RECURSIVE ToDigits(_)
ToDigits(n) ==
    IF n < 10 THEN <<DigitChars[n + 1]>>
    ELSE ToDigits(n \div 10) \o <<DigitChars[(n % 10) + 1]>>

\* Number(s) for the strings of the model: the empty string is 0, a decimal
\* numeral is its value, anything else is NaN.
RECURSIVE DigitsValue(_)
DigitsValue(chars) ==
    IF chars = <<>> THEN 0
    ELSE 10 * DigitsValue(SubSeq(chars, 1, Len(chars) - 1)) + DigitValue(chars[Len(chars)])
NaN == [nan |-> TRUE, value |-> 0]
Number(chars) ==
    IF \A i \in 1..Len(chars) : IsDigit(chars[i])
    THEN [nan |-> FALSE, value |-> DigitsValue(chars)]
    ELSE NaN

\* s.split(sep): the pieces of s between the separators.
RECURSIVE Split(_, _)
Split(chars, sep) ==
    IF \E i \in 1..Len(chars) : chars[i] = sep
    THEN LET i == CHOOSE j \in 1..Len(chars) :
                     chars[j] = sep /\ \A k \in 1..(j - 1) : chars[k] # sep
         IN <<SubSeq(chars, 1, i - 1)>> \o Split(SubSeq(chars, i + 1, Len(chars)), sep)
    ELSE <<chars>>

\* A variant of the size parsing that takes the width for the height too.
FalImageSizeSquare(size) ==
    IF size # None /\ size[1] # <<>>
    THEN LET numbers == [i \in 1..Len(Split(size[1], "x")) |->
                            Number(Split(size[1], "x")[i])]
         IN IF ~numbers[1].nan /\ numbers[1].value # 0
            THEN [width |-> numbers[1].value, height |-> numbers[1].value]
            ELSE [width |-> 1024, height |-> 1024]
    ELSE [width |-> 1024, height |-> 1024]

\* The width and height createFalImageHandler asks for: those of a size "WxH"
\* whose two numbers are truthy, 1024 by 1024 otherwise.
FalImageSize(size) ==
    IF size # None /\ size[1] # <<>>
    THEN LET pieces == Split(size[1], "x")
             numbers == [i \in 1..Len(pieces) |-> Number(pieces[i])]
             w == numbers[1]
             hDefined == Len(numbers) >= 2
         IN IF (~w.nan /\ w.value # 0)
               /\ hDefined /\ (~numbers[2].nan /\ numbers[2].value # 0)
            THEN [width |-> w.value, height |-> numbers[2].value]
            ELSE [width |-> 1024, height |-> 1024]
    ELSE [width |-> 1024, height |-> 1024]

\* imageParams.count || 1
CountOrOne(count) == IF count # None /\ count[1] # 0 THEN count[1] ELSE 1

DefaultSize == <<"1", "0", "2", "4", "x", "1", "0", "2", "4">>
\* size || '1024x1024', size being imageParams.size when that is truthy.
GatewayImageSize(size) == IF size # None /\ size[1] # <<>> THEN size[1] ELSE DefaultSize

\* The sizes the handlers are called with: "WxH" for the dimensions of the
\* model, and strings of other forms.
Dimensions == {0, 512, 768, 1024}
SizeOf(w, h) == ToDigits(w) \o <<"x">> \o ToDigits(h)
SizeStrings ==
    {SizeOf(w, h) : w, h \in Dimensions}
    \cup {<<>>, <<"5", "1", "2">>, <<"5", "1", "2", "x">>, <<"l", "a", "r", "g", "e">>}
ImageParams ==
    [size : {None} \cup {Some(s) : s \in SizeStrings}, count : {None, Some(0), Some(2)}]

\* The configurations the image handlers are created with.
ImageConfigs ==
    {[f \in DOMAIN c \cup {"FAL_API_KEY", "FAL_IMAGE_MODEL", "FAL_VIDEO_MODEL"} |->
         CASE f = "FAL_API_KEY" -> k
           [] f = "FAL_IMAGE_MODEL" -> "fal-ai/flux/dev"
           [] f = "FAL_VIDEO_MODEL" -> "fal-ai/minimax-video"
           [] OTHER -> c[f]] :
       c \in {parseConfig(EnvOf("key-A", Undefined, Undefined)).value[1]},
       k \in {Undefined, "", "fal-key"}}

\* initFalClient(apiKey): fal.config({ credentials: apiKey }); the credentials
\* the provider's client was configured with.
initFalClient(apiKey) == Some(apiKey)

\* A variant of createFalImageHandler's handler that configures the provider's
\* client before it looks at the credential.
FalImageHandlerCallConfiguresFirst(params) ==
    /\ image.pc = "idle" /\ image.path = "fal"
    /\ image' =
          IF ~Truthy(image.config.FAL_API_KEY)
          THEN [image EXCEPT !.pc = "threw", !.params = Some(params),
                             !.credentials = initFalClient(image.config.FAL_API_KEY),
                             !.error = "FAL_API_KEY is required for FAL image generation"]
          ELSE [image EXCEPT
                   !.pc = "awaitSubscribe", !.params = Some(params),
                   !.credentials = initFalClient(image.config.FAL_API_KEY),
                   !.request = Some([model |-> image.config.FAL_IMAGE_MODEL,
                                     image_size |-> FalImageSize(params.size),
                                     num_images |-> CountOrOne(params.count),
                                     size |-> <<>>])]

\* createFalImageHandler's handler up to `await fal.subscribe`.
FalImageHandlerCall(params) ==
    /\ image.pc = "idle" /\ image.path = "fal"
    /\ image' =
          IF ~Truthy(image.config.FAL_API_KEY)
          THEN [image EXCEPT !.pc = "threw", !.params = Some(params),
                             !.error = "FAL_API_KEY is required for FAL image generation"]
          ELSE [image EXCEPT
                   !.pc = "awaitSubscribe", !.params = Some(params),
                   !.credentials = initFalClient(image.config.FAL_API_KEY),
                   !.request = Some([model |-> image.config.FAL_IMAGE_MODEL,
                                     image_size |-> FalImageSize(params.size),
                                     num_images |-> CountOrOne(params.count),
                                     size |-> <<>>])]

\* The images the provider made, as result.data carries them in each of its
\* shapes.
ImageObject(url) == JsObject([url |-> JsString(url)])
ImageObjects(urls) == [i \in 1..Len(urls) |-> ImageObject(urls[i])]
ResponseShapes == {"list", "single", "nested"}
FalResponse(shape, urls) ==
    CASE shape = "list" -> JsArray(ImageObjects(urls))
      [] shape = "single" -> ImageObject(urls[1])
      [] shape = "nested" -> JsObject([images |-> JsArray(ImageObjects(urls))])
UrlLists ==
    UNION {[1..n -> {"https://fal.media/a.png", "https://fal.media/b.png"}] :
              n \in 0..MaxImages}

\* value.name for a generated value: undefined unless value is an object that
\* has the property.
Property(value, name) ==
    IF value.t = "object" /\ name \in DOMAIN value.fields THEN value.fields[name]
    ELSE JsUndefined

\* (result.data?.images || [result.data]).map((img) => ({ url: img.url }))
NormalizeFalImages(data) ==
    LET images == IF Property(data, "images").t = "undefined" THEN <<data>>
                  ELSE Property(data, "images").elems
    IN [i \in 1..Len(images) |-> [url |-> Property(images[i], "url")]]

\* fal.subscribe resolves with the images in one of the shapes, and the handler
\* returns their normalization.
FalSubscribeResolves(shape, urls) ==
    /\ image.pc = "awaitSubscribe"
    /\ shape = "single" => Len(urls) = 1
    /\ image' = [image EXCEPT
                    !.pc = "returned",
                    !.shape = shape,
                    !.upstream = urls,
                    !.result = NormalizeFalImages(FalResponse(shape, urls))]

\* The parameters the video handler is called with.
VideoParams ==
    [prompt : {"a cat"}, image_url : {Undefined, "", "https://img.example/a.png"}]

\* The input of the video job: the prompt, and the image_url when there is one.
VideoInput(params) ==
    IF Truthy(params.image_url)
    THEN [prompt |-> params.prompt, image_url |-> params.image_url]
    ELSE [prompt |-> params.prompt]

\* createFalVideoHandler's handler up to `await fal.subscribe`.
FalVideoHandlerCall(params) ==
    /\ image.pc = "idle" /\ image.path = "falVideo"
    /\ image' =
          IF ~Truthy(image.config.FAL_API_KEY)
          THEN [image EXCEPT !.pc = "threw", !.params = Some(params),
                             !.error = "FAL_API_KEY is required for FAL video generation"]
          ELSE [image EXCEPT
                   !.pc = "awaitVideo", !.params = Some(params),
                   !.credentials = initFalClient(image.config.FAL_API_KEY),
                   !.request = Some([model |-> image.config.FAL_VIDEO_MODEL,
                                     input |-> VideoInput(params)])]

\* result.data of a video job: { video?: { url }, url? }.
VideoUrls == {Undefined, "", "https://fal.media/v.mp4", "https://fal.media/w.mp4"}
VideoResponses ==
    [video : {None} \cup {Some([url |-> u]) : u \in VideoUrls}, url : VideoUrls]
\* data.video?.url || data.url
VideoUrl(data) ==
    Or(IF data.video = None THEN Undefined ELSE data.video[1].url, data.url)

\* fal.subscribe resolves for the video job: the handler returns the URL, or
\* throws when the response has none.
FalVideoSubscribeResolves(data) ==
    /\ image.pc = "awaitVideo"
    /\ image' =
          IF ~Truthy(VideoUrl(data))
          THEN [image EXCEPT !.pc = "threw", !.error = "No video URL returned from FAL"]
          ELSE [image EXCEPT !.pc = "returned",
                             !.result = <<[url |-> VideoUrl(data)]>>]

\* createImageHandler's handler up to `await fetch`.
ImageHandlerCall(params) ==
    /\ image.pc = "idle" /\ image.path = "gateway"
    /\ image' = [image EXCEPT
                    !.pc = "awaitFetch", !.params = Some(params),
                    !.request = Some([model |-> image.config.AI_GATEWAY_IMAGE_MODEL,
                                      image_size |-> [width |-> 0, height |-> 0],
                                      num_images |-> CountOrOne(params.count),
                                      size |-> GatewayImageSize(params.size)])]

\* The entries of the gateway's response: a URL, inline data, or neither.
GatewayImages ==
    {[url |-> Undefined, b64_json |-> Undefined],
     [url |-> "https://gw.example/a.png", b64_json |-> Undefined],
     [url |-> Undefined, b64_json |-> "iVBORw0KGgo="]}
\* img.b64_json ? `data:image/png;base64,${img.b64_json}` : img.url || ''
GatewayImageUrl(img) ==
    IF Truthy(img.b64_json) THEN "data:image/png;base64," \o img.b64_json
    ELSE Or(img.url, "")

\* fetch resolves with a success response, and the handler returns its images.
FetchResolvesOk(data) ==
    /\ image.pc = "awaitFetch"
    /\ image' = [image EXCEPT
                    !.pc = "returned",
                    !.result = [i \in 1..Len(data) |->
                                   [url |-> JsString(GatewayImageUrl(data[i]))]]]

\* fetch resolves with a failure response, and the handler throws its text.
FetchResolvesNotOk ==
    /\ image.pc = "awaitFetch"
    /\ image' = [image EXCEPT !.pc = "threw",
                              !.error = "Image generation failed: upstream 500"]

(***************************************************************************)
(* handlers/text-to-speech.ts and handlers/transcription.ts.  A parameter  *)
(* is a JavaScript value; a fetch is a record of its URL and body; a       *)
(* response is a record of its ok flag and body.                           *)
(***************************************************************************)
JsNull == [t |-> "null"]
\* A Buffer of the given bytes.
JsBuffer(bytes) == [t |-> "buffer", bytes |-> bytes]

\* `name in value`, for a value that passed `value && typeof value === 'object'`.
In(name, value) == value.t = "object" /\ name \in DOMAIN value.fields

\* `${prefix}${error}`: an error message made of a fixed prefix and the text of
\* the upstream response.
Failed(prefix, body) == [prefix |-> prefix, body |-> body]
\* An error message that embeds no response.
Message(s) == [prefix |-> s, body |-> ""]

\* `${config.AI_GATEWAY_BASE_URL}${path}`
Endpoint(config, path) == [base |-> config.AI_GATEWAY_BASE_URL, path |-> path]

\* A variant of the parameter reading of the TTS handler that always takes the
\* configured voice.
TtsInputDefaultVoice(config, params) ==
    IF params.t = "string"
    THEN [threw |-> FALSE, text |-> params.value,
          voice |-> config.AI_GATEWAY_TTS_VOICE, speed |-> Undefined]
    ELSE IF In("text", params)
         THEN [threw |-> FALSE, text |-> params.fields.text,
               voice |-> config.AI_GATEWAY_TTS_VOICE,
               speed |-> Get(params.fields, "speed")]
         ELSE [threw |-> TRUE, text |-> Undefined, voice |-> Undefined,
               speed |-> Undefined]

\* The text, voice and speed the TTS handler reads from its parameter, or the
\* throw on a parameter that is neither a string nor an object with `text`.
TtsInput(config, params) ==
    IF params.t = "string"
    THEN [threw |-> FALSE, text |-> params.value,
          voice |-> config.AI_GATEWAY_TTS_VOICE, speed |-> Undefined]
    ELSE IF In("text", params)
         THEN [threw |-> FALSE, text |-> params.fields.text,
               voice |-> Or(Get(params.fields, "voice"), config.AI_GATEWAY_TTS_VOICE),
               speed |-> Get(params.fields, "speed")]
         ELSE [threw |-> TRUE, text |-> Undefined, voice |-> Undefined,
               speed |-> Undefined]

\* The parameters the two handlers are called with.
TtsRecords ==
    {[text |-> "hello"], [text |-> "hello", voice |-> "nova"],
     [text |-> "hello", voice |-> ""], [text |-> "hello", voice |-> "nova", speed |-> "1.5"],
     [voice |-> "nova"], [audioUrl |-> "https://audio.example/a.mp3"]}
AudioParams ==
    {JsString("hello"), JsString("https://audio.example/a.mp3"), JsNull, JsUndefined,
     JsInt, JsArray(<<>>), JsBuffer("bytes-0")}
    \cup {JsObject(r) : r \in TtsRecords}

\* The configurations the two handlers are created with.
AudioConfigs ==
    {[c EXCEPT !.AI_GATEWAY_TTS_VOICE = v] :
        c \in {parseConfig(EnvOf("key-A", Undefined, Undefined)).value[1]},
        v \in {DefaultTtsVoice, "echo"}}

\* The responses a fetch resolves with.
Responses == [ok : BOOLEAN, body : {"body-1", "body-2"}]

\* createTextToSpeechHandler's handler up to `await fetch`.
TextToSpeechHandlerCall(params) ==
    /\ audio.pc = "idle" /\ audio.handler = "tts"
    /\ LET input == TtsInput(audio.config, params)
       IN audio' =
             IF input.threw
             THEN [audio EXCEPT
                      !.pc = "threw", !.params = Some(params),
                      !.error = Message("Invalid TTS params: expected text string or TextToSpeechParams")]
             ELSE [audio EXCEPT
                      !.pc = "awaitSpeech", !.params = Some(params),
                      !.fetches =
                         <<[url |-> Endpoint(audio.config, "/audio/speech"),
                            method |-> "POST",
                            body |-> [model |-> audio.config.AI_GATEWAY_TTS_MODEL,
                                      input |-> input.text,
                                      voice |-> input.voice,
                                      speed |-> Or(input.speed, "1.0")]]>>]

\* The speech fetch resolves: the handler throws on a failure response and
\* returns the bytes of the body otherwise.
SpeechFetchResolves(response) ==
    /\ audio.pc = "awaitSpeech"
    /\ audio' =
          IF ~response.ok
          THEN [audio EXCEPT !.pc = "threw", !.responses = Append(@, response),
                             !.error = Failed("TTS failed: ", response.body)]
          ELSE [audio EXCEPT !.pc = "returned", !.responses = Append(@, response),
                             !.result = Some(JsBuffer(response.body))]

\* The transcription request for the audio data.
TranscriptionPost(config, audioData) ==
    [url |-> Endpoint(config, "/audio/transcriptions"),
     method |-> "POST",
     body |-> [file |-> audioData, model |-> config.AI_GATEWAY_TRANSCRIPTION_MODEL]]
\* A fetch of the audio at a URL.
AudioGet(url) == [url |-> url, method |-> "GET", body |-> Undefined]

\* createTranscriptionHandler's handler up to its first `await fetch`: of the
\* audio URL, or of the transcription when the parameter is the audio itself.
TranscriptionHandlerCall(params) ==
    /\ audio.pc = "idle" /\ audio.handler = "transcription"
    /\ audio' =
          IF params.t = "buffer"
          THEN [audio EXCEPT !.pc = "awaitTranscription", !.params = Some(params),
                             !.fetches = <<TranscriptionPost(audio.config, params.bytes)>>]
          ELSE IF params.t = "string"
          THEN [audio EXCEPT !.pc = "awaitAudio", !.params = Some(params),
                             !.fetches = <<AudioGet(params.value)>>]
          ELSE IF In("audioUrl", params)
          THEN [audio EXCEPT !.pc = "awaitAudio", !.params = Some(params),
                             !.fetches = <<AudioGet(params.fields.audioUrl)>>]
          ELSE [audio EXCEPT
                   !.pc = "threw", !.params = Some(params),
                   !.error = Message("Invalid transcription params: expected audio URL, Buffer, or TranscriptionParams")]

\* The fetch of the audio URL resolves: the body of the response, whatever its
\* status, is taken as the audio and posted for transcription.
AudioFetchResolves(response) ==
    /\ audio.pc = "awaitAudio"
    /\ audio' = [audio EXCEPT
                    !.pc = "awaitTranscription",
                    !.responses = Append(@, response),
                    !.fetches = Append(@, TranscriptionPost(audio.config, response.body))]

\* The transcription fetch resolves: the handler throws on a failure response
\* and returns the text of the body otherwise.
TranscriptionFetchResolves(response) ==
    /\ audio.pc = "awaitTranscription"
    /\ audio' =
          IF ~response.ok
          THEN [audio EXCEPT !.pc = "threw", !.responses = Append(@, response),
                             !.error = Failed("Transcription failed: ", response.body)]
          ELSE [audio EXCEPT !.pc = "returned", !.responses = Append(@, response),
                             !.result = Some(JsString(response.body))]

(***************************************************************************)
(* handlers/image-description.ts.  The text of the model's response is a   *)
(* sequence of pieces: the keywords of the template in either case, white  *)
(* space, and other characters.                                            *)
(***************************************************************************)
TitleKeywords == {"TITLE:", "title:"}
DescriptionKeywords == {"DESCRIPTION:", "description:"}

\* The length of the run of white space that starts at position j: what a
\* greedy \s* takes first.
SpaceRun(chars, j) ==
    CHOOSE n \in 0..Len(chars) :
       /\ \A k \in j..(j + n - 1) : k <= Len(chars) /\ chars[k] \in WhiteSpace
       /\ (j + n > Len(chars) \/ chars[j + n] \notin WhiteSpace)

Least(S) == CHOOSE x \in S : \A y \in S : x <= y
Greatest(S) == CHOOSE x \in S : \A y \in S : x >= y

\* The positions where the group (.+?) that starts at s may end: it holds no
\* line break and is followed by a line break or the description keyword.
TitleEnds(chars, s) ==
    {e \in s..(Len(chars) - 1) :
        /\ \A k \in s..e : chars[k] # "\n"
        /\ (chars[e + 1] = "\n" \/ chars[e + 1] \in DescriptionKeywords)}

\* The group of /TITLE:\s*(.+?)(?:\n|DESCRIPTION:)/i matched at the keyword at
\* position i: \s* gives back white space until the rest matches, and the group
\* is the shortest there is.
TitleAt(chars, i) ==
    LET ws == {w \in 0..SpaceRun(chars, i + 1) : TitleEnds(chars, i + 1 + w) # {}}
    IN IF ws = {} THEN None
       ELSE LET s == i + 1 + Greatest(ws)
            IN Some(SubSeq(chars, s, Least(TitleEnds(chars, s))))
\* text.match(/TITLE:\s*(.+?)(?:\n|DESCRIPTION:)/i)?.[1]: the group of the
\* leftmost match, None without a match.
TitleMatch(chars) ==
    LET starts == {i \in 1..Len(chars) :
                      chars[i] \in TitleKeywords /\ TitleAt(chars, i) # None}
    IN IF starts = {} THEN None ELSE TitleAt(chars, Least(starts))

\* The group of /DESCRIPTION:\s*(.+)/is matched at the keyword at position i:
\* everything after the white space, or the last white space when nothing else
\* follows.
DescriptionAt(chars, i) ==
    IF i >= Len(chars) THEN None
    ELSE LET s == i + 1 + SpaceRun(chars, i + 1)
         IN IF s <= Len(chars) THEN Some(SubSeq(chars, s, Len(chars)))
            ELSE Some(SubSeq(chars, Len(chars), Len(chars)))
\* text.match(/DESCRIPTION:\s*(.+)/is)?.[1]
DescriptionMatch(chars) ==
    LET starts == {i \in 1..Len(chars) :
                      chars[i] \in DescriptionKeywords /\ DescriptionAt(chars, i) # None}
    IN IF starts = {} THEN None ELSE DescriptionAt(chars, Least(starts))

\* match?.[1]?.trim() || fallback
TrimmedOr(match, fallback) ==
    IF match # None /\ Trim(match[1]) # <<>> THEN Trim(match[1]) ELSE fallback

\* A variant of the parsing in which a response without a title is taken whole
\* as the description.
ParseDescriptionCoupled(chars) ==
    [title |-> TrimmedOr(TitleMatch(chars), <<"Image">>),
     description |-> IF TitleMatch(chars) = None THEN chars
                     ELSE TrimmedOr(DescriptionMatch(chars), chars)]

\* The record the handler returns for the response text.
ParseDescription(chars) ==
    [title |-> TrimmedOr(TitleMatch(chars), <<"Image">>),
     description |-> TrimmedOr(DescriptionMatch(chars), chars)]

\* The parameters the handler is called with: an image URL, or a record with
\* the URL and perhaps a prompt.
VisionParams ==
    {JsString("https://img.example/a.png"),
     JsObject([imageUrl |-> "https://img.example/a.png"]),
     JsObject([imageUrl |-> "https://img.example/a.png", prompt |-> "What is this?"])}
DefaultVisionPrompt ==
    "Describe this image in detail. Provide a short title and a comprehensive description."

\* The image and the prompt of the generateText request.
VisionRequest(config, params) ==
    [model |-> config.AI_GATEWAY_VISION_MODEL,
     image |-> IF params.t = "string" THEN params.value ELSE params.fields.imageUrl,
     prompt |-> IF params.t = "string" THEN DefaultVisionPrompt
                ELSE Or(Get(params.fields, "prompt"), DefaultVisionPrompt)]

\* The invocation up to `await generateText`.
ImageDescriptionHandlerCall(params) ==
    /\ vision.pc = "idle"
    /\ CallGetLanguageModel(vision.config, vision.config.AI_GATEWAY_VISION_MODEL)
    /\ vision' = [vision EXCEPT !.pc = "awaitGenerateText",
                                !.params = Some(params),
                                !.request = Some(VisionRequest(vision.config, params))]

\* The response texts: every sequence of up to MaxResponseLen pieces.
ResponsePieces == {"TITLE:", "title:", "DESCRIPTION:", " ", "\n", "a"}
ResponseTexts == UNION {[1..n -> ResponsePieces] : n \in 0..MaxResponseLen}

\* generateText resolves with a text and the handler returns what it parses.
VisionGenerateTextResolves(chars) ==
    /\ vision.pc = "awaitGenerateText"
    /\ vision' = [vision EXCEPT !.pc = "returned",
                                !.text = Some(chars),
                                !.result = Some(ParseDescription(chars))]
    /\ UNCHANGED gatewayVars

(***************************************************************************)
(* handlers/fal-models.ts: fetchAllFalModels.  A model of the catalogue is *)
(* the number of its date; a page is a record of its items and nextCursor. *)
(***************************************************************************)
\* sortModels(models, 'newest'): by date, the newest first, as a stable
\* insertion of each model into the sorted rest.
RECURSIVE InsertNewest(_, _)
InsertNewest(model, sorted) ==
    IF sorted = <<>> THEN <<model>>
    ELSE IF model >= Head(sorted) THEN <<model>> \o sorted
         ELSE <<Head(sorted)>> \o InsertNewest(model, Tail(sorted))
RECURSIVE sortModels(_)
sortModels(items) ==
    IF items = <<>> THEN <<>>
    ELSE InsertNewest(Head(items), sortModels(Tail(items)))

\* The items fetchFalModels returns for a page: sorted when a sort is asked for.
PageItems(page, sort) == IF Truthy(sort) THEN sortModels(page.items) ELSE page.items

\* A variant of the loop condition that allows one page more.
FetchContinuesOneMore(cursor, pages, maxPages) == Truthy(cursor) /\ pages <= maxPages
\* while (cursor && pages < maxPages)
FetchContinues(cursor, pages, maxPages) == Truthy(cursor) /\ pages < maxPages

\* The pages of the catalogue and the arguments of the call.
ItemLists == {<<>>, <<1>>, <<2>>, <<1, 2>>, <<2, 1>>}
Cursors == {Undefined, "", "cursor-1", "cursor-2"}
FalPages == [items : ItemLists, nextCursor : Cursors]
Sorts == {Undefined, "newest"}

\* fetchAllFalModels(apiKey, filters, maxPages) up to its first
\* `await fetchFalModels`, which is made without a cursor.
FetchAllFalModels ==
    /\ models.pc = "idle"
    /\ models' = [models EXCEPT !.pc = "awaitPage", !.cursors = <<Undefined>>]

\* fetchFalModels resolves with a page: its items are pushed, and the loop goes
\* on with the page's cursor or the function returns what it gathered.
PageResolves(page) ==
    /\ models.pc = "awaitPage"
    /\ LET allModels == models.allModels \o PageItems(page, models.sort)
           pages == models.pages + 1
       IN models' =
             IF FetchContinues(page.nextCursor, pages, models.maxPages)
             THEN [models EXCEPT !.fetched = Append(@, page),
                                 !.allModels = allModels,
                                 !.pages = pages,
                                 !.cursors = Append(@, page.nextCursor)]
             ELSE [models EXCEPT !.pc = "returned",
                                 !.fetched = Append(@, page),
                                 !.allModels = allModels,
                                 !.pages = pages,
                                 !.result = Some(IF Truthy(models.sort)
                                                 THEN sortModels(allModels)
                                                 ELSE allModels)]

\* fetchFalModels throws (a failure response, a body that is no JSON): the
\* error leaves fetchAllFalModels.
PageFails(error) ==
    /\ models.pc = "awaitPage"
    /\ models' = [models EXCEPT !.pc = "threw", !.error = error]

(***************************************************************************)
(* Values of the variables a specification does not use.                   *)
(***************************************************************************)
IdleEnv == EnvOf(Undefined, Undefined, Undefined)
IdleText == [pc |-> "unused"]
IdleStream == [gen |-> "unused"]
IdleEmbedding == [pc |-> "unused"]
IdleTokenizer == [pc |-> "unused"]
IdlePlugin == [pc |-> "unused"]
IdleObject == [pc |-> "unused"]
IdleImage == [pc |-> "unused"]
IdleAudio == [pc |-> "unused"]
IdleVision == [pc |-> "unused"]
IdleModels == [pc |-> "unused"]
RestIdle == audio = IdleAudio /\ vision = IdleVision /\ models = IdleModels
LocalIdle ==
    /\ tokenizer = IdleTokenizer /\ plugin = IdlePlugin
    /\ object = IdleObject /\ image = IdleImage
    /\ RestIdle
\* The gateway, the settings and the handlers over them, unused.
RemoteIdle ==
    /\ GatewayInit
    /\ env = IdleEnv /\ parsed = NotCalled
    /\ calls = IdleCalls
    /\ text = IdleText /\ stream = IdleStream /\ embedding = IdleEmbedding
remoteVars == <<gatewayVars, configVars, calls, text, stream, embedding>>

(***************************************************************************)
(* Spec: the gateway client cache under any sequence of direct calls.      *)
(***************************************************************************)
Init ==
    /\ GatewayInit
    /\ LocalIdle
    /\ env = IdleEnv /\ parsed = NotCalled
    /\ calls = IdleCalls
    /\ text = IdleText /\ stream = IdleStream /\ embedding = IdleEmbedding

Next ==
    \/ \E config \in GatewayConfigs :
          /\ CallCreateGatewayClient(config)
          /\ UNCHANGED <<configVars, calls, text, stream, embedding, localVars>>
    \/ \E config \in GatewayConfigs :
          \E modelId \in {config.AI_GATEWAY_TEXT_SMALL_MODEL,
                          config.AI_GATEWAY_TEXT_LARGE_MODEL} :
             /\ CallGetLanguageModel(config, modelId)
             /\ UNCHANGED <<configVars, calls, text, stream, embedding, localVars>>
    \/ \E config \in GatewayConfigs :
          /\ CallGetEmbeddingModel(config, config.AI_GATEWAY_EMBEDDING_MODEL)
          /\ UNCHANGED <<configVars, calls, text, stream, embedding, localVars>>
    \/ /\ CallClearGatewayCache
       /\ UNCHANGED <<configVars, calls, text, stream, embedding, localVars>>

Spec == Init /\ [][Next]_vars

(***************************************************************************)
(* SpecConfig: one parseConfig call on any raw settings.                   *)
(***************************************************************************)
ParseConfig ==
    /\ parsed = NotCalled
    /\ parsed' = parseConfig(env)
    /\ UNCHANGED <<env, gatewayVars, calls, text, stream, embedding, localVars>>

InitConfig ==
    /\ GatewayInit
    /\ LocalIdle
    /\ env \in EnvInputs /\ parsed = NotCalled
    /\ calls = IdleCalls
    /\ text = IdleText /\ stream = IdleStream /\ embedding = IdleEmbedding

NextConfig == ParseConfig

SpecConfig == InitConfig /\ [][NextConfig]_vars

(***************************************************************************)
(* SpecCalls: handler invocations of differing configurations in flight    *)
(* together, with cache clears in between.                                 *)
(***************************************************************************)
InitCalls ==
    /\ GatewayInit
    /\ LocalIdle
    /\ env = IdleEnv /\ parsed = NotCalled
    /\ calls \in [CallIds ->
                    {[handler |-> [kind |-> k, config |-> c], pc |-> "idle",
                      model |-> None] : k \in HandlerKinds, c \in CallConfigs}]
    /\ text = IdleText /\ stream = IdleStream /\ embedding = IdleEmbedding

NextCalls ==
    \/ \E p \in CallIds :
          /\ TextHandlerStart(p)
          /\ UNCHANGED <<configVars, text, stream, embedding, localVars>>
    \/ \E p \in CallIds :
          /\ EmbeddingHandlerStart(p)
          /\ UNCHANGED <<configVars, text, stream, embedding, localVars>>
    \/ \E p \in CallIds :
          /\ HandlerResume(p)
          /\ UNCHANGED <<configVars, text, stream, embedding, localVars>>
    \/ /\ CallClearGatewayCache
       /\ UNCHANGED <<configVars, calls, text, stream, embedding, localVars>>

SpecCalls == InitCalls /\ [][NextCalls]_vars

(***************************************************************************)
(* SpecText: one invocation of a text handler and the consumption of its   *)
(* result.                                                                 *)
(***************************************************************************)
InitText ==
    /\ GatewayInit
    /\ LocalIdle
    /\ env = IdleEnv /\ parsed = NotCalled
    /\ calls = IdleCalls
    /\ \E config \in CallConfigs :
          \E modelId \in {config.AI_GATEWAY_TEXT_SMALL_MODEL,
                          config.AI_GATEWAY_TEXT_LARGE_MODEL} :
             text = [handler |-> [config |-> config, modelId |-> modelId],
                     pc |-> "idle", params |-> None, model |-> None,
                     requests |-> <<>>, result |-> None]
    /\ stream = IdleStream
    /\ embedding = IdleEmbedding

NextText ==
    \/ \E params \in TextParams :
          /\ TextHandlerCall(params)
          /\ UNCHANGED <<configVars, calls, embedding, localVars>>
    \/ /\ StreamTextReturns
       /\ UNCHANGED <<configVars, calls, embedding, localVars>>
    \/ \E completed \in BlockingTexts :
          /\ GenerateTextReturns(completed)
          /\ UNCHANGED <<configVars, calls, embedding, localVars>>
    \/ \E chunk \in Fragments :
          /\ ConsumerNextChunk(chunk)
          /\ UNCHANGED <<configVars, calls, embedding, localVars>>
    \/ /\ ConsumerNextEnd
       /\ UNCHANGED <<configVars, calls, embedding, localVars>>
    \/ /\ CallbackResolves
       /\ UNCHANGED <<configVars, calls, embedding, localVars>>
    \/ /\ CallbackFails
       /\ UNCHANGED <<configVars, calls, embedding, localVars>>
    \/ /\ ConsumerNextAfterClose
       /\ UNCHANGED <<configVars, calls, embedding, localVars>>

SpecText == InitText /\ [][NextText]_vars

(***************************************************************************)
(* SpecEmbedding: invocations, one after the other, of handlers of the two *)
(* implementations of createTextEmbeddingHandler.                          *)
(***************************************************************************)
InitEmbedding ==
    /\ GatewayInit
    /\ LocalIdle
    /\ env = IdleEnv /\ parsed = NotCalled
    /\ calls = IdleCalls
    /\ text = IdleText /\ stream = IdleStream
    /\ \E config \in CallConfigs :
          embedding = [pc |-> "used", config |-> config, log |-> <<>>, pending |-> None]

NextEmbedding ==
    \/ \E impl \in EmbeddingImplementations, params \in EmbeddingParams :
          /\ EmbeddingHandlerCall(impl, params)
          /\ UNCHANGED <<configVars, calls, text, stream, localVars>>
    \/ \E vector \in UpstreamEmbeddings :
          /\ EmbedResolves(vector)
          /\ UNCHANGED <<configVars, calls, text, stream, localVars>>

SpecEmbedding == InitEmbedding /\ [][NextEmbedding]_vars

(***************************************************************************)
(* SpecTokenizer: encode and decode calls on the shared tokenizer cache.   *)
(***************************************************************************)
InitTokenizer ==
    /\ RemoteIdle
    /\ plugin = IdlePlugin /\ object = IdleObject /\ image = IdleImage
    /\ RestIdle
    /\ tokenizer = [pc |-> "used", tokenizers |-> <<>>, created |-> 0, first |-> <<>>,
                    last |-> None, calls |-> 0, refused |-> FALSE,
                    held |-> None, decoded |-> None]

NextTokenizer ==
    \/ \E modelType \in ModelTypes, prompt \in Prompts :
          /\ TokenizerEncode(modelType, prompt)
          /\ UNCHANGED <<remoteVars, plugin, object, image, restVars>>
    \/ \E modelType \in ModelTypes, prompt \in Prompts :
          /\ TokenizerEncodeOther(modelType, prompt)
          /\ UNCHANGED <<remoteVars, plugin, object, image, restVars>>
    \/ \E modelType \in ModelTypes :
          /\ TokenizerDecode(modelType)
          /\ UNCHANGED <<remoteVars, plugin, object, image, restVars>>

SpecTokenizer == InitTokenizer /\ [][NextTokenizer]_vars

(***************************************************************************)
(* SpecPlugin: aiGatewayPlugin.init on any plugin config and environment,  *)
(* and the host invoking what init registered.                             *)
(***************************************************************************)
InitPlugin ==
    /\ RemoteIdle
    /\ tokenizer = IdleTokenizer /\ object = IdleObject /\ image = IdleImage
    /\ RestIdle
    /\ \E pluginConfig \in Settings, processEnv \in Settings :
          plugin = [pc |-> "loaded", pluginConfig |-> pluginConfig,
                    processEnv |-> processEnv, config |-> None, handlers |-> <<>>,
                    registered |-> <<>>, invoked |-> None,
                    thrown |-> None]

NextPlugin ==
    \/ /\ PluginInit
       /\ UNCHANGED <<remoteVars, tokenizer, object, image, restVars>>
    \/ \E i \in 1..(Len(BaseHandlers) + 1), thrown \in ThrownValues :
          /\ InvokeRegistered(i, thrown)
          /\ UNCHANGED <<remoteVars, tokenizer, object, image, restVars>>

SpecPlugin == InitPlugin /\ [][NextPlugin]_vars

(***************************************************************************)
(* SpecDispatch: createModelHandlers on any configuration.                 *)
(***************************************************************************)
InitDispatch ==
    /\ RemoteIdle
    /\ tokenizer = IdleTokenizer /\ object = IdleObject /\ image = IdleImage
    /\ RestIdle
    /\ \E config \in DispatchConfigs :
          plugin = [pc |-> "configured", pluginConfig |-> None, processEnv |-> None,
                    config |-> Some(config), handlers |-> <<>>, registered |-> <<>>,
                    invoked |-> None]

NextDispatch ==
    /\ BuildHandlers
    /\ UNCHANGED <<remoteVars, tokenizer, object, image, restVars>>

SpecDispatch == InitDispatch /\ [][NextDispatch]_vars

(***************************************************************************)
(* SpecObject: one invocation of the OBJECT_SMALL or the OBJECT_LARGE       *)
(* handler, on any parameters.                                             *)
(***************************************************************************)
InitObject ==
    /\ GatewayInit
    /\ env = IdleEnv /\ parsed = NotCalled
    /\ calls = IdleCalls
    /\ text = IdleText /\ stream = IdleStream /\ embedding = IdleEmbedding
    /\ tokenizer = IdleTokenizer /\ plugin = IdlePlugin /\ image = IdleImage
    /\ RestIdle
    /\ LET config == parseConfig(EnvOf("key-A", Undefined, Undefined)).value[1]
       IN \E modelId \in {config.AI_GATEWAY_TEXT_SMALL_MODEL,
                          config.AI_GATEWAY_TEXT_LARGE_MODEL} :
             object = [pc |-> "idle", handler |-> [config |-> config, modelId |-> modelId],
                       params |-> None, request |-> None, result |-> None]

NextObject ==
    \/ \E params \in ObjectParams :
          /\ ObjectHandlerCall(params)
          /\ UNCHANGED <<configVars, calls, text, stream, embedding, tokenizer,
                          plugin, image, restVars>>
    \/ \E generated \in GeneratedValues \cup {JsString(s) : s \in {Undefined, "red", "green"}} :
          /\ GenerateObjectResolves(generated)
          /\ UNCHANGED <<configVars, calls, text, stream, embedding, tokenizer,
                          plugin, image, restVars>>
    \/ /\ GenerateObjectRejects
       /\ UNCHANGED <<configVars, calls, text, stream, embedding, tokenizer,
                       plugin, image, restVars>>

SpecObject == InitObject /\ [][NextObject]_vars

(***************************************************************************)
(* SpecImage: one invocation of the gateway's or of the alternative        *)
(* provider's image handler, on any parameters.                            *)
(***************************************************************************)
InitImage ==
    /\ RemoteIdle
    /\ tokenizer = IdleTokenizer /\ plugin = IdlePlugin /\ object = IdleObject
    /\ RestIdle
    /\ \E path \in {"gateway", "fal", "falVideo"}, config \in ImageConfigs :
          image = [pc |-> "idle", path |-> path, config |-> config, params |-> None,
                   credentials |-> None, request |-> None, shape |-> "",
                   upstream |-> <<>>, result |-> <<>>, error |-> ""]

NextImage ==
    \/ \E params \in ImageParams :
          /\ FalImageHandlerCall(params)
          /\ UNCHANGED <<remoteVars, tokenizer, plugin, object, restVars>>
    \/ \E shape \in ResponseShapes, urls \in UrlLists :
          /\ FalSubscribeResolves(shape, urls)
          /\ UNCHANGED <<remoteVars, tokenizer, plugin, object, restVars>>
    \/ \E params \in ImageParams :
          /\ ImageHandlerCall(params)
          /\ UNCHANGED <<remoteVars, tokenizer, plugin, object, restVars>>
    \/ \E n \in 0..MaxImages : \E data \in [1..n -> GatewayImages] :
          /\ FetchResolvesOk(data)
          /\ UNCHANGED <<remoteVars, tokenizer, plugin, object, restVars>>
    \/ /\ FetchResolvesNotOk
       /\ UNCHANGED <<remoteVars, tokenizer, plugin, object, restVars>>
    \/ \E params \in VideoParams :
          /\ FalVideoHandlerCall(params)
          /\ UNCHANGED <<remoteVars, tokenizer, plugin, object, restVars>>
    \/ \E data \in VideoResponses :
          /\ FalVideoSubscribeResolves(data)
          /\ UNCHANGED <<remoteVars, tokenizer, plugin, object, restVars>>

SpecImage == InitImage /\ [][NextImage]_vars

(***************************************************************************)
(* SpecAudio: one invocation of the text-to-speech or transcription        *)
(* handler and the responses of its fetches.                               *)
(***************************************************************************)
InitAudio ==
    /\ RemoteIdle
    /\ tokenizer = IdleTokenizer /\ plugin = IdlePlugin
    /\ object = IdleObject /\ image = IdleImage
    /\ vision = IdleVision /\ models = IdleModels
    /\ \E handler \in {"tts", "transcription"}, config \in AudioConfigs :
          audio = [pc |-> "idle", handler |-> handler, config |-> config,
                   params |-> None, fetches |-> <<>>, responses |-> <<>>,
                   result |-> None, error |-> Message("")]

NextAudio ==
    \/ \E params \in AudioParams :
          /\ TextToSpeechHandlerCall(params)
          /\ UNCHANGED <<remoteVars, tokenizer, plugin, object, image, vision, models>>
    \/ \E response \in Responses :
          /\ SpeechFetchResolves(response)
          /\ UNCHANGED <<remoteVars, tokenizer, plugin, object, image, vision, models>>
    \/ \E params \in AudioParams :
          /\ TranscriptionHandlerCall(params)
          /\ UNCHANGED <<remoteVars, tokenizer, plugin, object, image, vision, models>>
    \/ \E response \in Responses :
          /\ AudioFetchResolves(response)
          /\ UNCHANGED <<remoteVars, tokenizer, plugin, object, image, vision, models>>
    \/ \E response \in Responses :
          /\ TranscriptionFetchResolves(response)
          /\ UNCHANGED <<remoteVars, tokenizer, plugin, object, image, vision, models>>

SpecAudio == InitAudio /\ [][NextAudio]_vars

(***************************************************************************)
(* SpecVision: one invocation of the image description handler.            *)
(***************************************************************************)
InitVision ==
    /\ GatewayInit
    /\ env = IdleEnv /\ parsed = NotCalled
    /\ calls = IdleCalls
    /\ text = IdleText /\ stream = IdleStream /\ embedding = IdleEmbedding
    /\ tokenizer = IdleTokenizer /\ plugin = IdlePlugin
    /\ object = IdleObject /\ image = IdleImage
    /\ audio = IdleAudio /\ models = IdleModels
    /\ vision = [pc |-> "idle",
                 config |-> parseConfig(EnvOf("key-A", Undefined, Undefined)).value[1],
                 params |-> None, request |-> None, text |-> None, result |-> None]

NextVision ==
    \/ \E params \in VisionParams :
          /\ ImageDescriptionHandlerCall(params)
          /\ UNCHANGED <<configVars, calls, text, stream, embedding, tokenizer,
                          plugin, object, image, audio, models>>
    \/ \E chars \in ResponseTexts :
          /\ VisionGenerateTextResolves(chars)
          /\ UNCHANGED <<configVars, calls, text, stream, embedding, tokenizer,
                          plugin, object, image, audio, models>>

SpecVision == InitVision /\ [][NextVision]_vars

(***************************************************************************)
(* SpecModels: one fetchAllFalModels call; every fetch it awaits settles.  *)
(***************************************************************************)
InitModels ==
    /\ RemoteIdle
    /\ tokenizer = IdleTokenizer /\ plugin = IdlePlugin
    /\ object = IdleObject /\ image = IdleImage
    /\ audio = IdleAudio /\ vision = IdleVision
    /\ \E maxPages \in 0..MaxMaxPages, sort \in Sorts :
          models = [pc |-> "idle", maxPages |-> maxPages, sort |-> sort,
                    cursors |-> <<>>, fetched |-> <<>>, allModels |-> <<>>,
                    pages |-> 0, result |-> None, error |-> ""]

NextModels ==
    \/ /\ FetchAllFalModels
       /\ UNCHANGED <<remoteVars, tokenizer, plugin, object, image, audio, vision>>
    \/ \E page \in FalPages :
          /\ PageResolves(page)
          /\ UNCHANGED <<remoteVars, tokenizer, plugin, object, image, audio, vision>>
    \/ \E error \in {"FAL API error: Too Many Requests", "Failed to parse FAL API response"} :
          /\ PageFails(error)
          /\ UNCHANGED <<remoteVars, tokenizer, plugin, object, image, audio, vision>>

SpecModels == InitModels /\ [][NextModels]_vars /\ WF_vars(NextModels)

(***************************************************************************)
(* Properties of the gateway client cache (Spec).                          *)
(***************************************************************************)
\* The handle h was built with the (API key, base URL) pair of config.
BuiltWith(h, config) ==
    /\ h.baseURL = config.AI_GATEWAY_BASE_URL
    /\ h.headers.Authorization = "Bearer " \o config.AI_GATEWAY_API_KEY

\* The last call went through createGatewayClient.
ThroughCreate ==
    lastCall.op \in {"createGatewayClient", "getLanguageModel", "getEmbeddingModel"}

\* C1: createGatewayClient(config) returns the cached handle, the same instance and
\* with nothing constructed, if and only if a handle is cached and it was built with
\* the (API key, base URL) pair of config; in every other case it constructs a new
\* handle from that pair, caches it and returns it.
C1_CacheDecision ==
    ThroughCreate =>
        LET pre == lastCall.pre
            config == lastCall.config[1]
            ret == lastCall.handle[1]
        IN IF pre.instance # None /\ BuiltWith(pre.instance[1], config)
           THEN /\ ret = pre.instance[1]
                /\ constructed = pre.constructed
                /\ gatewayInstance = pre.instance
           ELSE /\ constructed = pre.constructed + 1
                /\ ret.id = constructed
                /\ (pre.instance # None => ret # pre.instance[1])
                /\ BuiltWith(ret, config)
                /\ gatewayInstance = Some(ret)

\* C1 witness: a call with a configuration that is another object than the recorded
\* one (it differs in a model id) but has the same pair got the cached instance back,
\* after an earlier call with another pair had replaced the cache.
C1_Witness ==
    /\ lastCall.op = "createGatewayClient"
    /\ lastCall.pre.instance # None
    /\ lastCall.pre.config # lastCall.config
    /\ lastCall.handle = lastCall.pre.instance
    /\ lastCall.handle[1].id = 2
    /\ constructed = 2

\* C2: after clearGatewayCache() the cache is empty, and the next call of
\* createGatewayClient constructs a handle that is a new instance, also when its
\* configuration has the pair of the handle that was cached before the clear.
C2_ClearThenFresh ==
    /\ lastCall.op = "clearGatewayCache" =>
          gatewayInstance = None /\ currentConfig = None
    /\ (ThroughCreate /\ lastCall.afterClear) =>
          LET ret == lastCall.handle[1]
          IN /\ constructed = lastCall.pre.constructed + 1
             /\ ret.id = constructed
             /\ (lastCall.cleared # None => ret.id > lastCall.cleared[1].id)
             /\ gatewayInstance = Some(ret)

\* C2 witness: the call after a clear has the pair of the handle the clear dropped,
\* and returned an instance constructed after it.
C2_Witness ==
    /\ lastCall.op = "createGatewayClient"
    /\ lastCall.afterClear
    /\ lastCall.cleared # None
    /\ BuiltWith(lastCall.cleared[1], lastCall.config[1])
    /\ lastCall.handle[1].id = lastCall.cleared[1].id + 1

(***************************************************************************)
(* Properties of interleaved handler invocations (SpecCalls).              *)
(***************************************************************************)
\* The invocation p holds a model derived from a handle built with credentials
\* other than those of its own configuration.
Stale(p) ==
    /\ calls[p].model # None
    /\ ~BuiltWith(calls[p].model[1].provider, calls[p].handler.config)

\* Two invocations whose configurations differ in API key or base URL are in
\* flight together.
CredentialChangeInFlight ==
    \E p, q \in CallIds :
        /\ calls[p].pc = "awaiting"
        /\ calls[q].pc = "awaiting"
        /\ \/ calls[p].handler.config.AI_GATEWAY_API_KEY
                 # calls[q].handler.config.AI_GATEWAY_API_KEY
           \/ calls[p].handler.config.AI_GATEWAY_BASE_URL
                 # calls[q].handler.config.AI_GATEWAY_BASE_URL

\* C3 as claimed: interleaving invocations of differing credentials serves an
\* invocation a stale handle.  Stated of the interleavings in which invocations of
\* differing credentials are in flight together: one of them holds a stale model.
C3_StaleHandleServed ==
    CredentialChangeInFlight => \E p \in CallIds : Stale(p)

\* C3 as amended: in every interleaving, every invocation holds a model derived
\* from a handle built with the credentials of its own configuration; what the
\* interleaving does is replace the cached handle.
C3_NoStaleHandle ==
    \A p \in CallIds : ~Stale(p)

\* C3 witness: two invocations of differing credentials are in flight, the second
\* has replaced the cached handle, and the first still holds the handle it obtained.
C3_Witness ==
    /\ CredentialChangeInFlight
    /\ \E p \in CallIds :
          /\ calls[p].pc = "awaiting"
          /\ gatewayInstance # None
          /\ gatewayInstance[1].id > calls[p].model[1].provider.id
          /\ ~BuiltWith(gatewayInstance[1], calls[p].handler.config)

(***************************************************************************)
(* Properties of configuration resolution (SpecConfig).                    *)
(***************************************************************************)
\* C8: parseConfig fails, and returns no configuration, for every input whose API
\* key is absent or the empty string, whatever the other fields are.
C8_MissingKeyFails ==
    (parsed # NotCalled /\ env.AI_GATEWAY_API_KEY \in {Undefined, ""}) =>
        parsed.threw /\ parsed.value = None

\* C8 witness: parseConfig was called with an empty API key and every other field
\* set to a valid value.
C8_Witness ==
    /\ parsed # NotCalled
    /\ env.AI_GATEWAY_API_KEY = ""
    /\ env.AI_GATEWAY_BASE_URL = "https://proxy.example/v1"
    /\ env.AI_GATEWAY_TTS_VOICE = "nova"
    /\ \A f \in ConfigFields \ {"AI_GATEWAY_API_KEY"} : env[f] \notin {Undefined, ""}
    /\ parsed.threw

\* The documented defaults.
C9_Documented ==
    [AI_GATEWAY_BASE_URL |-> "https://ai-gateway.vercel.sh/v1",
     AI_GATEWAY_TEXT_SMALL_MODEL |-> "anthropic/claude-haiku-4.5",
     AI_GATEWAY_TEXT_LARGE_MODEL |-> "anthropic/claude-opus-4.5",
     AI_GATEWAY_EMBEDDING_MODEL |-> "openai/text-embedding-3-large",
     AI_GATEWAY_IMAGE_MODEL |-> "bfl/flux-2-pro",
     AI_GATEWAY_VISION_MODEL |-> "xai/grok-2-vision",
     AI_GATEWAY_TRANSCRIPTION_MODEL |-> "openai/whisper-1",
     AI_GATEWAY_TTS_MODEL |-> "openai/tts-1-hd",
     AI_GATEWAY_TTS_VOICE |-> "alloy"]

C9_OtherFields == ConfigFields \ {"AI_GATEWAY_API_KEY"}

\* C9: with a non-empty API key and no other field set, parseConfig succeeds and
\* every other field has its documented default; and in every configuration
\* parseConfig returns, a field that was set has the value it was set to (the API
\* key included) and a field that was not set has its documented default.
C9_DefaultsAndPassThrough ==
    (parsed # NotCalled /\ env.AI_GATEWAY_API_KEY \notin {Undefined, ""}) =>
        /\ (\A f \in C9_OtherFields : env[f] = Undefined) =>
              /\ ~parsed.threw
              /\ \A f \in C9_OtherFields : parsed.value[1][f] = C9_Documented[f]
        /\ ~parsed.threw =>
              /\ parsed.value[1].AI_GATEWAY_API_KEY = env.AI_GATEWAY_API_KEY
              /\ \A f \in C9_OtherFields :
                    parsed.value[1][f] =
                        IF env[f] = Undefined THEN C9_Documented[f] ELSE env[f]

\* C9 witness: parseConfig has returned for an input with only the API key set.
C9_Witness ==
    /\ parsed # NotCalled
    /\ env.AI_GATEWAY_API_KEY = "key-A"
    /\ \A f \in C9_OtherFields : env[f] = Undefined
    /\ ~parsed.threw
    /\ parsed.value[1].AI_GATEWAY_TTS_VOICE = "alloy"

(***************************************************************************)
(* Properties of the text handler (SpecText).                              *)
(***************************************************************************)
\* C4: the text handler issues a streaming request and returns a streaming result
\* object exactly when the stream flag is true, or is unset with a chunk callback
\* supplied; in every other case (stream false with a callback too) it issues one
\* blocking request and returns the completed text as a string.
C4_ModeDecision ==
    text.pc \notin {"unused", "idle"} =>
        LET p == text.params[1]
            streaming == p.stream = "true" \/ (p.stream = Undefined /\ p.onStreamChunk)
        IN /\ text.requests = IF streaming THEN <<"streamText">> ELSE <<"generateText">>
           /\ text.pc = "returned" =>
                 text.result[1].type = IF streaming THEN "TextStreamResult" ELSE "string"

\* C4 witness: called with stream false and a callback, the handler has returned a
\* string.
C4_Witness ==
    /\ text.pc = "returned"
    /\ text.params[1] = [stream |-> "false", onStreamChunk |-> TRUE]
    /\ text.requests = <<"generateText">>
    /\ text.result[1] = [type |-> "string", textStream |-> "none", value |-> "Hello"]

\* s is a prefix of t.
IsPrefix(s, t) == Len(s) <= Len(t) /\ SubSeq(t, 1, Len(s)) = s

\* C5: in streaming mode with a callback, every fragment yielded to the consumer has
\* had its callback invocation completed before (the yielded fragments are a prefix
\* of the fragments whose callback completed), and once the consumer has consumed
\* the sequence to completion the callback was given exactly the fragments the
\* consumer was, in the same order, which are the fragments the model streamed.
C5_CallbackSeesConsumerSequence ==
    WithCallback =>
        /\ IsPrefix(stream.yielded, stream.delivered)
        /\ IsPrefix(stream.delivered, stream.invoked)
        /\ stream.consumer = "complete" =>
              /\ stream.invoked = stream.yielded
              /\ stream.delivered = stream.yielded
              /\ stream.yielded = stream.upstream

\* C5 witness: the consumer has consumed a sequence of three fragments, not all the
\* same, to completion, with a callback supplied.
C5_Witness ==
    /\ WithCallback
    /\ stream.consumer = "complete"
    /\ stream.yielded = <<"Hel", "lo", "Hel">>
    /\ stream.delivered = <<"Hel", "lo", "Hel">>

\* C6: once the consumer has consumed the fragment sequence of a streaming result to
\* completion, with or without a callback, the deferred full text is the
\* concatenation, in order, of the fragments the consumer received.
C6_FullTextIsConcatenation ==
    (Streaming /\ stream.consumer = "complete") =>
        stream.fullText = Some(Concat(stream.yielded))

\* C6 witness: a sequence of two fragments was consumed to completion through the
\* callback wrapper and the full text is their concatenation.
C6_Witness ==
    /\ WithCallback
    /\ stream.consumer = "complete"
    /\ stream.yielded = <<"Hel", "lo">>
    /\ stream.fullText = Some("Hello")

\* C7: if the callback fails on fragment i, the consumer of the sequence gets the
\* failure and the sequence is over: no fragment from the i-th on is ever yielded
\* and the callback is never invoked after its i-th invocation, whatever the
\* consumer does next.
C7_CallbackFailureAborts ==
    (WithCallback /\ stream.failedAt > 0) =>
        /\ stream.consumer = "failed"
        /\ stream.error # None
        /\ stream.gen = "closed"
        /\ Len(stream.yielded) = stream.failedAt - 1
        /\ Len(stream.invoked) = stream.failedAt
        /\ stream.yielded = SubSeq(stream.upstream, 1, stream.failedAt - 1)

\* C7 witness: the callback failed on the second fragment and the consumer has
\* pulled again since.
C7_Witness ==
    /\ WithCallback
    /\ stream.failedAt = 2
    /\ stream.pulledAfterClose
    /\ stream.yielded = <<"Hel">>
    /\ stream.invoked = <<"Hel", "lo">>

(***************************************************************************)
(* Properties of the embedding handlers (SpecEmbedding).                   *)
(***************************************************************************)
\* The parameter carries a text that is empty or whitespace only.
BlankInput(params) ==
    /\ params.type \in {"string", "object"}
    /\ params.text # None
    /\ Trim(params.text[1]) = <<>>

\* C10: for an empty or whitespace-only text the embedding handler has one single
\* outcome: any two calls with the same such input, repeated on one handler or made
\* on handlers of different implementations of createTextEmbeddingHandler, end the
\* same way.
C10_SingleBlankTextOutcome ==
    \A i, j \in 1..Len(embedding.log) :
        (BlankInput(embedding.log[i].params)
            /\ embedding.log[i].params = embedding.log[j].params)
        => embedding.log[i].outcome = embedding.log[j].outcome

\* No text is resolvable from the parameter: it is null or undefined, or a record
\* whose text field is missing or undefined.
NoTextResolvable(params) ==
    \/ params.type \in {"null", "undefined"}
    \/ params.type = "object" /\ params.text = None

\* C11: for every input from which no text is resolvable the embedding handler
\* fails with an error, and it never reaches `embed` (no upstream call is pending
\* or was made for such an input).
C11_NoTextFails ==
    /\ \A i \in 1..Len(embedding.log) :
          NoTextResolvable(embedding.log[i].params)
          => embedding.log[i].outcome.kind = "threw"
    /\ embedding.pending # None => ~NoTextResolvable(embedding.pending[1].params)

(***************************************************************************)
(* Properties of the tokenizer handlers (SpecTokenizer).                   *)
(***************************************************************************)
\* C12: whatever encode and decode calls for other model identifiers came in
\* between, decoding a token sequence with the model identifier it was encoded
\* with, recognized or not, returns the text that was encoded.
C12_RoundTrip ==
    (tokenizer.held # None /\ tokenizer.decoded # None
        /\ tokenizer.decoded[1].modelType = tokenizer.held[1].modelType)
    => tokenizer.decoded[1].outcome = Returned(tokenizer.held[1].prompt)

\* C12 witness: a text encoded under an unrecognized identifier came back from
\* decode under the same identifier as a merged token's text, with tokenizers of
\* two other encodings cached by then.
C12_Witness ==
    /\ tokenizer.held # None /\ tokenizer.decoded # None
    /\ tokenizer.held[1].modelType = "TEXT_LARGE"
    /\ tokenizer.decoded[1].modelType = "TEXT_LARGE"
    /\ tokenizer.held[1].tokens = <<370>>
    /\ tokenizer.decoded[1].outcome = Returned(<<"a", "b">>)
    /\ {"gpt2", "cl100k_base"} \subseteq DOMAIN tokenizer.tokenizers

(***************************************************************************)
(* Properties of plugin initialisation (SpecPlugin, SpecDispatch).         *)
(***************************************************************************)
\* C13: when a registered handler is invoked and throws, the caller receives
\* what wrapHandlerError makes of the thrown value and the invoked model type:
\* an AIGatewayError passes unchanged, anything else becomes a HANDLER_ERROR
\* with the model type and the original message in its message and the original
\* Error as its cause.
C13_ErrorsWrapped ==
    plugin.invoked # None
    => plugin.invoked[1].received
          = wrapHandlerError(plugin.invoked[1].modelType, plugin.invoked[1].thrown)

\* The registerModel calls made for a model type.
RegistrationsOf(modelType) ==
    {i \in 1..Len(plugin.registered) : plugin.registered[i].modelType = modelType}
BaseModelTypes == {BaseHandlers[i][1] : i \in 1..Len(BaseHandlers)}

\* C14: after a successful init every model type of the base set has been
\* registered exactly once, with the plugin's name as provider and priority 10,
\* and no model type has been registered twice.
C14_BaseSetRegisteredOnce ==
    plugin.pc = "initialized"
    => /\ \A modelType \in BaseModelTypes :
             /\ Cardinality(RegistrationsOf(modelType)) = 1
             /\ \A i \in RegistrationsOf(modelType) :
                   /\ plugin.registered[i].provider = "@ghostspeak/plugin-gateway-ghost"
                   /\ plugin.registered[i].priority = 10
       /\ \A i, j \in 1..Len(plugin.registered) :
             plugin.registered[i].modelType = plugin.registered[j].modelType => i = j

\* C14 witness: init succeeded on settings taken from the environment, and
\* fourteen model types were registered.
C14_Witness ==
    /\ plugin.pc = "initialized"
    /\ plugin.pluginConfig.AI_GATEWAY_API_KEY = Undefined
    /\ plugin.processEnv.AI_GATEWAY_API_KEY = "key-A"
    /\ Cardinality(BaseModelTypes) = 14
    /\ Len(plugin.registered) = 14

\* The handler the table binds to a model type (the table has the type once).
HandlerOf(modelType) ==
    plugin.handlers[CHOOSE i \in 1..Len(plugin.handlers) :
                       plugin.handlers[i].modelType = modelType].handler

\* C15: the handler the table binds to IMAGE is the alternative provider's
\* exactly when the configuration carries a credential for it and the preference
\* flag is set; otherwise it is the gateway's.
C15_ImageAdapterChoice ==
    plugin.pc = "built"
    => LET config == plugin.config[1]
           credential == "FAL_API_KEY" \in DOMAIN config
                            /\ config.FAL_API_KEY \notin {Undefined, ""}
           preferred == "FAL_PREFER_FOR_IMAGES" \in DOMAIN config
                           /\ config.FAL_PREFER_FOR_IMAGES = JsTrue
       IN /\ (credential /\ preferred) <=> HandlerOf("IMAGE") = "createFalImageHandler"
          /\ ~(credential /\ preferred) <=> HandlerOf("IMAGE") = "createImageHandler"

\* C15 witness: the table was built for a configuration with a credential and
\* the flag set, and it binds the alternative provider's adapter to IMAGE.
C15_Witness ==
    /\ plugin.pc = "built"
    /\ "FAL_API_KEY" \in DOMAIN plugin.config[1]
    /\ plugin.config[1].FAL_API_KEY = "fal-key"
    /\ plugin.config[1].FAL_PREFER_FOR_IMAGES = JsTrue
    /\ HandlerOf("IMAGE") = "createFalImageHandler"

\* C16: after init VIDEO is registered exactly when a FAL_API_KEY was supplied in
\* the plugin config or in the environment.
C16_VideoIffCredential ==
    plugin.pc = "initialized"
    => (RegistrationsOf("VIDEO") # {}
           <=> Truthy(Or(plugin.pluginConfig.FAL_API_KEY, plugin.processEnv.FAL_API_KEY)))

(***************************************************************************)
(* Properties of the object handlers (SpecObject).                         *)
(***************************************************************************)
\* C17: the result is shaped by the output mode asked for: { value } in enum
\* mode, { items } in array mode, the generated object itself in object mode and
\* when no mode is given.
C17_ShapeByMode ==
    object.pc = "returned"
    => object.result[1].shape =
          (CASE object.params[1].output = "enum" -> "value"
             [] object.params[1].output = "array" -> "items"
             [] OTHER -> "bare")

\* The zod schema marks, at every object schema with properties, exactly the
\* properties of the required list mandatory, and so at every nesting level.
RECURSIVE MandatoryIffRequired(_, _)
MandatoryIffRequired(schema, zod) ==
    CASE schema.type = "object" /\ schema.properties # None ->
            /\ zod.kind = "object"
            /\ DOMAIN zod.shape = DOMAIN schema.properties[1]
            /\ \A key \in DOMAIN zod.shape :
                  LET required == schema.required # None
                                     /\ \E i \in 1..Len(schema.required[1]) :
                                           schema.required[1][i] = key
                  IN /\ required <=> zod.shape[key].kind # "optional"
                     /\ MandatoryIffRequired(schema.properties[1][key],
                                             IF required THEN zod.shape[key]
                                             ELSE zod.shape[key].inner)
      [] schema.type = "array" /\ schema.items # None ->
            /\ zod.kind = "array"
            /\ MandatoryIffRequired(schema.items[1], zod.element)
      [] OTHER -> TRUE

\* C18: the schema the handler hands to generateObject marks a property
\* mandatory exactly when the required list names it, at every nesting level;
\* and a result generated in object mode against a schema that requires name and
\* age has both keys.
C18_RequiredMarksMandatory ==
    (object.request # None /\ object.params[1].schema # None
        /\ object.request[1].output # "enum")
    => /\ MandatoryIffRequired(object.params[1].schema[1], object.request[1].schema[1])
       /\ (object.pc = "returned" /\ object.request[1].output = "object"
              /\ object.params[1].schema[1].type = "object"
              /\ object.params[1].schema[1].required = Some(<<"name", "age">>))
          => {"name", "age"} \subseteq DOMAIN object.result[1].content.fields

\* C18 witness: a result came back for a schema that requires name and age and
\* nests, under name, an object schema with an optional property.
C18_Witness ==
    /\ object.pc = "returned"
    /\ object.request[1].output = "object"
    /\ object.params[1].schema # None
    /\ object.params[1].schema[1].type = "object"
    /\ object.params[1].schema[1].required = Some(<<"name", "age">>)
    /\ object.params[1].schema[1].properties[1].name.type = "object"
    /\ object.params[1].schema[1].properties[1].name.required = Some(<<"name">>)
    /\ object.request[1].schema[1].shape.name.shape.age.kind = "optional"
    /\ {"name", "age"} \subseteq DOMAIN object.result[1].content.fields

(***************************************************************************)
(* Properties of the image handlers (SpecImage).                           *)
(***************************************************************************)
\* The request of the invocation carries this width and height.
AsksFor(w, h) == image.request[1].image_size = [width |-> w, height |-> h]

C20_NormalizedPerImage ==
    (image.path = "fal" /\ image.pc = "returned")
    => /\ Len(image.result) = Len(image.upstream)
       /\ \A i \in 1..Len(image.result) :
             /\ image.result[i].url.t # "undefined"
             /\ i <= Len(image.upstream)
                   => image.result[i].url = JsString(image.upstream[i])

(***************************************************************************)
(* Invariants of the module states (Spec, SpecTokenizer).                  *)
(***************************************************************************)
\* C27: after any sequence of createGatewayClient, getLanguageModel,
\* getEmbeddingModel and clearGatewayCache calls the cache holds at most one
\* handle, the handle and the recorded configuration are both absent or both
\* present, and a present handle was built with the recorded configuration's API
\* key and base URL.
C27_CacheConsistent ==
    /\ Len(gatewayInstance) <= 1
    /\ Len(currentConfig) <= 1
    /\ gatewayInstance = None <=> currentConfig = None
    /\ gatewayInstance # None => BuiltWith(gatewayInstance[1], currentConfig[1])

\* C27 witness: the cache holds the third handle made, built for the proxy URL,
\* a clear having come just before the call that made it.
C27_Witness ==
    /\ gatewayInstance # None
    /\ gatewayInstance[1].id = 3
    /\ currentConfig[1].AI_GATEWAY_BASE_URL = "https://proxy.example/v1"
    /\ lastCall.afterClear

(***************************************************************************)
(* Pull-driven callback of the streaming text handler (SpecText).          *)
(***************************************************************************)
\* A step in which the consumer pulls: its next() starts the generator or resumes
\* it from its yield.
ConsumerPulls ==
    /\ stream.consumer = "idle"
    /\ stream.gen \in {"notStarted", "atYield"}
    /\ stream'.consumer # "idle"

\* C28: in streaming mode with a callback, the callback has at every point been
\* given as many fragments as were yielded to the consumer or one more, and it is
\* invoked only in a step in which the consumer pulls, once per pull: without a
\* pull (the consumer never iterates, or stops) no further fragment reaches it.
C28_CallbackDrivenByPulls ==
    /\ [](WithCallback =>
             /\ Len(stream.invoked) >= Len(stream.yielded)
             /\ Len(stream.invoked) <= Len(stream.yielded) + 1)
    /\ [][(WithCallback /\ stream'.invoked # stream.invoked)
             => /\ ConsumerPulls
                /\ Len(stream'.invoked) = Len(stream.invoked) + 1]_vars

\* C28 witness: the callback holds the second fragment, the consumer having been
\* yielded the first one only.
C28_Witness ==
    /\ WithCallback
    /\ stream.gen = "inCallback"
    /\ Len(stream.invoked) = 2
    /\ Len(stream.yielded) = 1


(***************************************************************************)
(* The tokenizer cache (SpecTokenizer)                                     *)
(***************************************************************************)
\* A modelType encodingForModel does not know.
Unrecognized(modelType) == encodingForModel(modelType).threw
\* The key of the cache under which the tokenizer of a modelType is kept.
KeyOf(modelType) == IF Unrecognized(modelType) THEN "cl100k_base" ELSE modelType

\* Every modelType asked for so far still gets the tokenizer its first call
\* got, all unrecognized ones get one and the same cl100k_base tokenizer, and
\* no tokenizer was made that the cache does not hold.
SharedAndStable ==
    /\ \A m \in DOMAIN tokenizer.first :
          /\ KeyOf(m) \in DOMAIN tokenizer.tokenizers
          /\ tokenizer.tokenizers[KeyOf(m)] = tokenizer.first[m]
          /\ Unrecognized(m) => tokenizer.first[m].encoding = "cl100k_base"
    /\ \A m1, m2 \in DOMAIN tokenizer.first :
          (Unrecognized(m1) /\ Unrecognized(m2))
             => tokenizer.first[m1] = tokenizer.first[m2]
    /\ tokenizer.last # None
          => tokenizer.last[1].ret = tokenizer.first[tokenizer.last[1].modelType]
    /\ tokenizer.created = Cardinality(DOMAIN tokenizer.tokenizers)

\* C29 as stated: an unrecognized modelType resolves to one shared cl100k_base
\* tokenizer made at most once, repeated calls return the tokenizer of the
\* first call, and no unrecognized modelType asked for is a key of the cache.
C29_AsStated ==
    /\ SharedAndStable
    /\ \A m \in DOMAIN tokenizer.first :
          Unrecognized(m) => m \notin DOMAIN tokenizer.tokenizers

\* C29: an unrecognized modelType resolves to one shared cl100k_base tokenizer
\* made at most once, repeated calls return the tokenizer of the first call,
\* and the keys of the cache are recognized modelTypes or the name
\* "cl100k_base" itself: no other unrecognized modelType becomes a key.
C29_TokenizerCache ==
    /\ SharedAndStable
    /\ \A m \in DOMAIN tokenizer.first :
          Unrecognized(m) => (m \notin DOMAIN tokenizer.tokenizers \/ m = "cl100k_base")
    /\ \A k \in DOMAIN tokenizer.tokenizers : ~Unrecognized(k) \/ k = "cl100k_base"

C29_Witness ==
    /\ tokenizer.calls = 4
    /\ {"TEXT_LARGE", "cl100k_base", "gpt-4"} \subseteq DOMAIN tokenizer.first
    /\ tokenizer.first["TEXT_LARGE"] = tokenizer.first["cl100k_base"]
    /\ tokenizer.first["gpt-4"].encoding = "cl100k_base"
    /\ tokenizer.first["gpt-4"] # tokenizer.first["TEXT_LARGE"]
    /\ tokenizer.created = 2
    /\ tokenizer.last[1].modelType = "TEXT_LARGE"


(***************************************************************************)
(* Plugin configuration at init (SpecPlugin)                               *)
(***************************************************************************)
\* A source (plugin config or environment) supplies a value for a setting.
Supplies(settings, f) == Truthy(settings[f])

\* C25: for every setting key, the configuration init resolves has the plugin
\* config's value when the plugin config supplies one, and the environment's
\* value when only the environment supplies one.
C25_PluginConfigWins ==
    plugin.pc = "initialized" =>
       \A f \in ConfigFields \cup FalFields :
          /\ Supplies(plugin.pluginConfig, f)
                => Get(plugin.config[1], f) = plugin.pluginConfig[f]
          /\ (~Supplies(plugin.pluginConfig, f) /\ Supplies(plugin.processEnv, f))
                => Get(plugin.config[1], f) = plugin.processEnv[f]

\* C26: when configuration resolution fails, init throws the resolution's
\* error and has registered no handler; whatever is registered was registered
\* after the settings were validated.
C26_FailedInitRegistersNothing ==
    LET r == parseConfig(InitInput(plugin.pluginConfig, plugin.processEnv))
    IN /\ (plugin.pc \in {"failed", "initialized"} /\ r.threw)
             => /\ plugin.pc = "failed"
                /\ plugin.thrown = Some(r.issues)
                /\ plugin.registered = <<>>
       /\ plugin.registered # <<>> => (~r.threw /\ plugin.thrown = None)

C26_Witness ==
    /\ plugin.pc = "failed"
    /\ plugin.thrown # None
    /\ plugin.pluginConfig["AI_GATEWAY_API_KEY"] = ""
    /\ plugin.processEnv["AI_GATEWAY_API_KEY"] = Undefined
    /\ plugin.pluginConfig["FAL_API_KEY"] = "fal-key"


(***************************************************************************)
(* The alternative provider without its credential (SpecImage)             *)
(***************************************************************************)
\* The handler of the alternative provider was invoked with a configuration
\* that has no credential.
InvokedWithoutCredential ==
    /\ image.path \in {"fal", "falVideo"}
    /\ image.pc # "idle"
    /\ ~Truthy(image.config.FAL_API_KEY)

\* C21: an image or video handler of the alternative provider invoked with a
\* configuration that has no credential has thrown its credential error, the
\* provider's client was not configured and no job was submitted; a configured
\* client and a submitted job imply a credential.
C21_NoCredentialNoNetwork ==
    /\ InvokedWithoutCredential
          => /\ image.pc = "threw"
             /\ image.error = IF image.path = "fal"
                              THEN "FAL_API_KEY is required for FAL image generation"
                              ELSE "FAL_API_KEY is required for FAL video generation"
             /\ image.credentials = None
             /\ image.request = None
    /\ (image.path \in {"fal", "falVideo"}
           /\ (image.credentials # None \/ image.request # None))
          => /\ Truthy(image.config.FAL_API_KEY)
             /\ image.credentials = Some(image.config.FAL_API_KEY)

C21_Witness ==
    /\ image.path = "falVideo"
    /\ image.config.FAL_API_KEY = ""
    /\ image.pc = "threw"
    /\ image.params = Some([prompt |-> "a cat", image_url |-> "https://img.example/a.png"])
    /\ image.credentials = None


(***************************************************************************)
(* Responses and parameters of the audio handlers (SpecAudio)              *)
(***************************************************************************)
\* C22: a failure response received during an invocation of the text-to-speech
\* or transcription handler (to the speech request, to the fetch of the audio
\* URL, to the transcription request) is never followed by a normal return, and
\* the error the invocation ends in embeds the body of that response.
C22_FailureResponseFails ==
    \A i \in 1..Len(audio.responses) :
       ~audio.responses[i].ok
          => /\ audio.pc # "returned"
             /\ audio.pc = "threw" => audio.error.body = audio.responses[i].body

\* The shapes of parameter the handlers can interpret.
TtsInterpretable(params) == params.t = "string" \/ In("text", params)
TranscriptionInterpretable(params) ==
    params.t \in {"buffer", "string"} \/ In("audioUrl", params)
Interpretable ==
    IF audio.handler = "tts" THEN TtsInterpretable(audio.params[1])
    ELSE TranscriptionInterpretable(audio.params[1])

\* C23: a handler called with a parameter of a shape it cannot interpret has
\* thrown its input error and made no fetch, and one called with a shape it can
\* interpret has not thrown that error; the voice of the speech request is the
\* parameter's voice when it gives one and the configured voice otherwise.
C23_ShapeCheckedBeforeFetch ==
    audio.params # None =>
       LET p == audio.params[1]
           invalid == IF audio.handler = "tts"
                      THEN Message("Invalid TTS params: expected text string or TextToSpeechParams")
                      ELSE Message("Invalid transcription params: expected audio URL, Buffer, or TranscriptionParams")
       IN /\ ~Interpretable
                => (audio.pc = "threw" /\ audio.error = invalid /\ audio.fetches = <<>>)
          /\ Interpretable => (audio.error # invalid /\ audio.fetches # <<>>)
          /\ (audio.handler = "tts" /\ Interpretable)
                => audio.fetches[1].body.voice =
                      IF In("voice", p) /\ p.fields.voice # ""
                      THEN p.fields.voice
                      ELSE audio.config.AI_GATEWAY_TTS_VOICE

C23_Witness ==
    /\ audio.handler = "tts"
    /\ audio.pc = "returned"
    /\ audio.config.AI_GATEWAY_TTS_VOICE = "echo"
    /\ audio.params = Some(JsObject([text |-> "hello", voice |-> "nova"]))
    /\ audio.fetches[1].body.voice = "nova"


(***************************************************************************)
(* Parsing of the vision model's response (SpecVision)                     *)
(***************************************************************************)
\* C24: whatever text generateText resolves with, the handler returns a title
\* and a description: the title is 'Image' when the title pattern does not
\* match (in particular without a TITLE: keyword) and the trimmed group when it
\* matches something, the description is the whole text when the description
\* pattern does not match (in particular without a DESCRIPTION: keyword) and
\* the trimmed group when it matches something, each whatever the other is.
C24_TemplateFallbacks ==
    vision.text # None =>
       LET chars == vision.text[1]
           result == vision.result[1]
           title == TitleMatch(chars)
           description == DescriptionMatch(chars)
       IN /\ vision.pc = "returned"
          /\ DOMAIN result = {"title", "description"}
          /\ (\A i \in 1..Len(chars) : chars[i] \notin TitleKeywords) => title = None
          /\ (\A i \in 1..Len(chars) : chars[i] \notin DescriptionKeywords)
                => description = None
          /\ title = None => result.title = <<"Image">>
          /\ description = None => result.description = chars
          /\ (title # None /\ Trim(title[1]) # <<>>) => result.title = Trim(title[1])
          /\ (description # None /\ Trim(description[1]) # <<>>)
                => result.description = Trim(description[1])

C24_Witness ==
    /\ vision.pc = "returned"
    /\ vision.text = Some(<<"a", "DESCRIPTION:", " ", "a">>)
    /\ vision.result = Some([title |-> <<"Image">>, description |-> <<"a">>])


(***************************************************************************)
(* Pagination of the model catalogue (SpecModels)                          *)
(***************************************************************************)
\* The items of the pages, one page after the other.
RECURSIVE ItemsOf(_)
ItemsOf(pages) == IF pages = <<>> THEN <<>> ELSE Head(pages).items \o ItemsOf(Tail(pages))
\* How often a model is in a list.
Occurrences(list, model) == Cardinality({i \in 1..Len(list) : list[i] = model})
AtMost(n) == IF n < 1 THEN 1 ELSE n

\* The pages fetched, the cursors sent and the outcome of the call agree with
\* the loop: between one and max(1, maxPages) fetches, the first without a
\* cursor and each later one with the cursor of the page before, none after a
\* page without a cursor; the result is the items of the pages in fetch order
\* (put newest first when a sort is asked for); a failed fetch leaves the error
\* and no list.
PagedAsStated ==
    models.pc # "idle" =>
       /\ Len(models.cursors) >= 1
       /\ Len(models.cursors) <= AtMost(models.maxPages)
       /\ Len(models.fetched) <= Len(models.cursors)
       /\ models.cursors[1] = Undefined
       /\ \A i \in 2..Len(models.cursors) :
             /\ models.cursors[i] = models.fetched[i - 1].nextCursor
             /\ models.cursors[i] \notin {Undefined, ""}
       /\ \A i \in 1..Len(models.fetched) :
             models.fetched[i].nextCursor \in {Undefined, ""}
                => (Len(models.cursors) = i /\ models.pc = "returned")
       /\ models.pc = "awaitPage" => Len(models.fetched) = Len(models.cursors) - 1
       /\ models.pc = "returned" =>
             /\ Len(models.fetched) = Len(models.cursors)
             /\ models.result # None
             /\ models.sort = Undefined => models.result[1] = ItemsOf(models.fetched)
             /\ models.sort # Undefined =>
                   /\ \A m \in 1..2 : Occurrences(models.result[1], m)
                                         = Occurrences(ItemsOf(models.fetched), m)
                   /\ \A i \in 1..(Len(models.result[1]) - 1) :
                         models.result[1][i] >= models.result[1][i + 1]
       /\ models.pc = "threw" => (models.result = None /\ models.error # "")

\* C30: a fetchAllFalModels call whose page fetches all settle comes to an end,
\* and at every moment what it has fetched, sent and returned is as the loop
\* prescribes (PagedAsStated).
C30_PaginationTerminates ==
    /\ []PagedAsStated
    /\ <>(models.pc \in {"returned", "threw"})

C30_Witness ==
    /\ models.pc = "returned"
    /\ models.maxPages = 3
    /\ models.sort = Undefined
    /\ models.cursors = <<Undefined, "cursor-1", "cursor-2">>
    /\ Len(models.fetched) = 3
    /\ models.fetched[3].nextCursor = "cursor-1"
    /\ models.result = Some(<<1, 2, 2, 1>>)

====
